---- MODULE Spec2Model ----
(***************************************************************************)
(* A model of the STABS decoder of src/stabs.c (parse_stab and the         *)
(* functions below it): the per-record dispatcher, the descriptor-string   *)
(* parser, the type number registry, the undefined tag list, the N_BINCL   *)
(* bookkeeping and the pending variable list; and of the link-time         *)
(* functions of the same file, which drop duplicate header files and the   *)
(* stabs of discarded functions from the input .stab sections.             *)
(*                                                                         *)
(* C strings are sequences of one-character strings; the terminating NUL   *)
(* is the character read one past the end.  Pointers into a string are     *)
(* 1-based indexes.  Heap objects (struct stab_types, struct stab_tag,     *)
(* struct bincl_file, and the debug_type nodes made by the sink) live in   *)
(* arenas, sequences indexed by an id; the null pointer is 0.              *)
(***************************************************************************)
EXTENDS Integers, Sequences, FiniteSets, TLC

VARIABLES
    info,         \* struct stab_handle
    stab_types,   \* arena of struct stab_types (chunks of 16 type slots)
    bincl_files,  \* arena of struct bincl_file
    stab_tags,    \* arena of struct stab_tag
    dbg,          \* the debug information sink behind dhandle
    diag,         \* what bad_stab / warn_stab / fprintf(stderr) reported
    ret,          \* the value returned by the last parse_stab / finish_stab
    session,      \* "open" until finish_stab has run or a dispatch failed
    hist,         \* the records dispatched so far, with what each did
    sinfo,        \* struct stab_info of the link
    stabsec,      \* the input .stab section at hand, with its secinfo
    last,         \* the last call of the link-time functions and its result
    mangled       \* the mangled name handed to the demangler and what came of it

decoder == <<info, stab_types, bincl_files, stab_tags, dbg, diag, ret, session, hist, mangled>>

linker == <<sinfo, stabsec, last, mangled>>

vars == <<info, stab_types, bincl_files, stab_tags, dbg, diag, ret, session, hist, sinfo, stabsec, last, mangled>>

\* The value of a call is read through a bound variable, so that the call is
\* made once however often its result is used: Result({ e(r) : r \in {call} })
\* is e of the value of the call.
Result(S) == CHOOSE x \in S : TRUE

(***************************************************************************)
(* Characters.                                                             *)
(***************************************************************************)
NUL == "\\0"

At(s, i) == IF i >= 1 /\ i <= Len(s) THEN s[i] ELSE NUL

Digits == <<"0", "1", "2", "3", "4", "5", "6", "7", "8", "9">>

ISDIGIT(c) == \E k \in 1..10 : Digits[k] = c

DigitVal(c) == (CHOOSE k \in 1..10 : Digits[k] = c) - 1

HexLetters == <<"a", "b", "c", "d", "e", "f">>

HexUpper == <<"A", "B", "C", "D", "E", "F">>

\* the value of c as a digit of strtoul, or 99 when c is no digit at all
StrtoulDigit(c) ==
    IF ISDIGIT(c) THEN DigitVal(c)
    ELSE IF \E k \in 1..6 : HexLetters[k] = c
         THEN 9 + (CHOOSE k \in 1..6 : HexLetters[k] = c)
    ELSE IF \E k \in 1..6 : HexUpper[k] = c
         THEN 9 + (CHOOSE k \in 1..6 : HexUpper[k] = c)
    ELSE 99

\* strchr(s + from - 1, c): the index of the first c at or after from, 0 if none
RECURSIVE strchr(_, _, _)
strchr(s, from, c) ==
    IF from > Len(s) THEN 0
    ELSE IF s[from] = c THEN from
    ELSE strchr(s, from + 1, c)

\* the characters of s in [from, to)
Sub(s, from, to) == IF to <= from THEN <<>> ELSE SubSeq(s, from, to - 1)

\* startswith(s + from - 1, prefix)
startswith(s, from, prefix) ==
    \A k \in 1..Len(prefix) : At(s, from + k - 1) = prefix[k]

(***************************************************************************)
(* bfd_vma: 64 bits, kept as four 16-bit limbs, least significant first.   *)
(***************************************************************************)
Limb == 256 * 256

VmaZero == <<0, 0, 0, 0>>

VmaOfNat(n) == <<n % Limb, (n \div Limb) % Limb, 0, 0>>

\* v * base + d, with the carry out of bit 63
VmaMulAdd(v, base, d) ==
    LET t1 == v[1] * base + d
        t2 == v[2] * base + (t1 \div Limb)
        t3 == v[3] * base + (t2 \div Limb)
        t4 == v[4] * base + (t3 \div Limb)
    IN  [v |-> <<t1 % Limb, t2 % Limb, t3 % Limb, t4 % Limb>>,
         carry |-> t4 \div Limb]

\* two's complement negation, modulo 2^64
VmaNeg(v) ==
    LET n1 == (Limb - 1 - v[1]) + 1
        n2 == (Limb - 1 - v[2]) + (n1 \div Limb)
        n3 == (Limb - 1 - v[3]) + (n2 \div Limb)
        n4 == (Limb - 1 - v[4]) + (n3 \div Limb)
    IN  <<n1 % Limb, n2 % Limb, n3 % Limb, n4 % Limb>>

VmaAdd1(v) == VmaMulAdd(v, 1, 1).v

\* the value read as bfd_signed_vma is negative
VmaIsNeg(v) == v[4] >= Limb \div 2

VmaIsPos(v) == ~VmaIsNeg(v) /\ v # VmaZero

VmaMinus1 == <<Limb - 1, Limb - 1, Limb - 1, Limb - 1>>

\* (int) v: the low 32 bits read as a signed int
VmaToInt(v) ==
    IF v[2] >= Limb \div 2 THEN (v[2] - Limb) * Limb + v[1] ELSE v[2] * Limb + v[1]

(***************************************************************************)
(* parse_number: strtoul with base 0, and its overflow report.             *)
(***************************************************************************)
\* the digits of strtoul from index i in the given base
RECURSIVE strtoul_digits(_, _, _, _, _, _)
strtoul_digits(s, i, base, v, any, ov) ==
    Result({ IF d >= base THEN [v |-> v, pp |-> i, any |-> any, ov |-> ov]
             ELSE Result({ strtoul_digits(s, i + 1, base, r.v, TRUE,
                                          ov \/ r.carry > 0) :
                           r \in {VmaMulAdd(v, base, d)} }) :
             d \in {StrtoulDigit(At(s, i))} })

\* strtoul with base 0: sign, 0x / 0 prefix, digits; ULONG_MAX and ERANGE on
\* overflow; endptr is nptr when there is no digit
strtoul(s, i) ==
    LET neg  == At(s, i) = "-"
        j    == IF At(s, i) \in {"-", "+"} THEN i + 1 ELSE i
        hex  == At(s, j) = "0" /\ At(s, j + 1) \in {"x", "X"}
                    /\ StrtoulDigit(At(s, j + 2)) < 16
    IN  Result({ IF ~r.any THEN [ul |-> VmaZero, pp |-> i, erange |-> FALSE]
                 ELSE IF r.ov THEN [ul |-> VmaMinus1, pp |-> r.pp, erange |-> TRUE]
                 ELSE [ul |-> IF neg THEN VmaNeg(r.v) ELSE r.v, pp |-> r.pp,
                       erange |-> FALSE] :
                 r \in {strtoul_digits(s, IF hex THEN j + 2 ELSE j,
                            IF hex THEN 16 ELSE IF At(s, j) = "0" THEN 8 ELSE 10,
                            VmaZero, FALSE, FALSE)} })

\* parse_number that returns what strtoul returned when it overflowed
parse_number_noclamp(s, pp) ==
    IF pp >= Len(s) + 1 THEN [v |-> VmaZero, pp |-> pp, ov |-> FALSE]
    ELSE Result({ [v |-> r.ul, pp |-> r.pp, ov |-> r.ul = VmaMinus1 /\ r.erange] :
                  r \in {strtoul(s, pp)} })

parse_number(s, pp) ==
    IF pp >= Len(s) + 1 THEN [v |-> VmaZero, pp |-> pp, ov |-> FALSE]
    ELSE Result({ IF r.ul # VmaMinus1 \/ ~r.erange
                  THEN [v |-> r.ul, pp |-> r.pp, ov |-> FALSE]
                  ELSE [v |-> VmaZero, pp |-> r.pp, ov |-> TRUE] :
                  r \in {strtoul(s, pp)} })

(***************************************************************************)
(* The machine: the decoder handle, its heap objects and the sink.  The    *)
(* functions below take a machine m and return the machine they leave.     *)
(***************************************************************************)
DEBUG_TYPE_NULL == 0

NoName == <<>>

Machine == [info |-> info, stab_types |-> stab_types, bincl_files |-> bincl_files,
            stab_tags |-> stab_tags, dbg |-> dbg, diag |-> diag]

\* fprintf (stderr, ...), bad_stab and warn_stab: the message is kept
Report(m, what) == [m EXCEPT !.diag = Append(@, what)]

bad_stab(m) == Report(m, "Bad stab")

\* warn_stab that keeps no message
warn_stab_silent(m, err) == m

warn_stab(m, err) == Report(m, err)

(***************************************************************************)
(* The sink.  A debug_type is the index of a node of dbg.types; an         *)
(* indirect node keeps the address of the slot it reads its type from:     *)
(* <<"types", chunk, index>> is stab_types[chunk].types[index] and         *)
(* <<"tag", id>> is stab_tags[id].slot.                                    *)
(***************************************************************************)
Node(kind, name, target, slot, size, flag) ==
    [kind |-> kind, name |-> name, target |-> target, slot |-> slot,
     size |-> size, flag |-> flag, parts |-> <<>>]

debug_make_type(m, node) ==
    [m |-> [m EXCEPT !.dbg.types = Append(@, node)],
     t |-> Len(m.dbg.types) + 1]

debug_call(m, ev) == [m EXCEPT !.dbg.calls = Append(@, ev)]

debug_make_indirect_type(m, slot, name) ==
    debug_make_type(m, Node("indirect", name, 0, slot, 0, FALSE))

debug_make_void_type(m) ==
    debug_make_type(m, Node("void", NoName, 0, <<>>, 0, FALSE))

debug_make_int_type(m, size, unsignedp) ==
    debug_make_type(m, Node("int", NoName, 0, <<>>, size, unsignedp))

debug_make_float_type(m, size) ==
    debug_make_type(m, Node("float", NoName, 0, <<>>, size, FALSE))

debug_make_complex_type(m, size) ==
    debug_make_type(m, Node("complex", NoName, 0, <<>>, size, FALSE))

debug_make_pointer_type(m, t) ==
    IF t = DEBUG_TYPE_NULL THEN [m |-> m, t |-> DEBUG_TYPE_NULL]
    ELSE debug_make_type(m, Node("pointer", NoName, t, <<>>, 0, FALSE))

\* the bounds of a range type are kept as the pair <<lower, upper>> in slot
debug_make_range_type(m, t, lower, upper) ==
    debug_make_type(m, Node("range", NoName, t, <<lower, upper>>, 0, FALSE))

debug_make_undefined_tagged_type(m, name, kind) ==
    debug_make_type(m, Node(kind, name, 0, <<>>, 0, TRUE))

debug_name_type(m, name, t) ==
    debug_make_type(m, Node("named", name, t, <<>>, 0, FALSE))

\* the tag is entered in the sink's tag namespace
debug_tag_type(m, name, t) ==
    LET r == debug_make_type(m, Node("tagged", name, t, <<>>, 0, FALSE))
    IN  [m |-> [r.m EXCEPT !.dbg.tags = Append(@, [name |-> name, type |-> r.t])],
         t |-> r.t]

debug_find_tagged_type(m, name) ==
    IF \E k \in 1..Len(m.dbg.tags) : m.dbg.tags[k].name = name
    THEN m.dbg.tags[CHOOSE k \in 1..Len(m.dbg.tags) :
                        /\ m.dbg.tags[k].name = name
                        /\ \A j \in 1..(k - 1) : m.dbg.tags[j].name # name].type
    ELSE DEBUG_TYPE_NULL

debug_record_variable(m, name, type, kind, val) ==
    debug_call(m, <<"debug_record_variable", name, type, kind, val>>)

\* *slot
\* a type that is made of parts: the parts are kept in the order given
debug_make_parts(m, kind, target, size, flag, parts) ==
    debug_make_type(m, [Node(kind, NoName, target, <<>>, size, flag)
                           EXCEPT !.parts = parts])

DEBUG_FIELD_NULL ==
    [name |-> NoName, type |-> DEBUG_TYPE_NULL, bitpos |-> <<>>, bitsize |-> <<>>,
     visibility |-> "null", static |-> FALSE, physname |-> NoName]

debug_make_field(name, type, bitpos, bitsize, visibility) ==
    [name |-> name, type |-> type, bitpos |-> bitpos, bitsize |-> bitsize,
     visibility |-> visibility, static |-> FALSE, physname |-> NoName]

debug_make_static_member(name, type, physname, visibility) ==
    [name |-> name, type |-> type, bitpos |-> <<>>, bitsize |-> <<>>,
     visibility |-> visibility, static |-> TRUE, physname |-> physname]

\* the parts of a struct or union are its fields; the sizes of the model
\* fit an int
debug_make_struct_type(m, structp, size, fields) ==
    debug_make_parts(m, IF structp THEN "struct" ELSE "union", 0, VmaToInt(size),
                     FALSE, fields)

\* the parts of a class are its fields, base classes (NULL or an array),
\* methods (<<>> is NULL), vptrbase and ownvptr
debug_make_object_type(m, structp, size, fields, based, baseclasses, methods, vptrbase, ownvptr) ==
    debug_make_parts(m, IF structp THEN "class" ELSE "union class", 0,
                     VmaToInt(size), FALSE,
                     <<fields, based, baseclasses, methods, vptrbase, ownvptr>>)

\* the first type given this name, DEBUG_TYPE_NULL if none (the sessions
\* that look a name up have one compilation unit)
debug_find_named_type(m, name) ==
    IF \E k \in 1..Len(m.dbg.types) :
           m.dbg.types[k].kind = "named" /\ m.dbg.types[k].name = name
    THEN CHOOSE k \in 1..Len(m.dbg.types) :
             /\ m.dbg.types[k].kind = "named" /\ m.dbg.types[k].name = name
             /\ \A j \in 1..(k - 1) :
                    ~(m.dbg.types[j].kind = "named" /\ m.dbg.types[j].name = name)
    ELSE DEBUG_TYPE_NULL

\* the types made of one other type: reference, const, volatile
debug_make_modified_type(m, kind, t) ==
    IF t = DEBUG_TYPE_NULL THEN [m |-> m, t |-> DEBUG_TYPE_NULL]
    ELSE debug_make_type(m, Node(kind, NoName, t, <<>>, 0, FALSE))

\* the parts of an array are its index type, bounds and stringp
debug_make_array_type(m, element_type, range_type, lower, upper, stringp) ==
    IF element_type = DEBUG_TYPE_NULL \/ range_type = DEBUG_TYPE_NULL
    THEN [m |-> m, t |-> DEBUG_TYPE_NULL]
    ELSE debug_make_parts(m, "array", element_type, 0, stringp,
                          <<range_type, lower, upper>>)

\* the parts of a function or method are the domain (methods), whether an
\* argument array was given, the array, and varargs
debug_make_method_type(m, return_type, domain_type, hasargs, args, varargs) ==
    IF return_type = DEBUG_TYPE_NULL THEN [m |-> m, t |-> DEBUG_TYPE_NULL]
    ELSE debug_make_parts(m, "method", return_type, 0, varargs,
                          <<domain_type, hasargs, args>>)

debug_make_function_type(m, return_type, hasargs, args, varargs) ==
    IF return_type = DEBUG_TYPE_NULL THEN [m |-> m, t |-> DEBUG_TYPE_NULL]
    ELSE debug_make_parts(m, "function", return_type, 0, varargs,
                          <<hasargs, args>>)

debug_make_offset_type(m, base_type, target_type) ==
    IF base_type = DEBUG_TYPE_NULL \/ target_type = DEBUG_TYPE_NULL
    THEN [m |-> m, t |-> DEBUG_TYPE_NULL]
    ELSE debug_make_parts(m, "offset", target_type, 0, FALSE, <<base_type>>)

\* the parts of an enum are its names and its values
debug_make_enum_type(m, names, values) ==
    debug_make_parts(m, "enum", 0, 0, FALSE, <<names, values>>)

SlotGet(m, slot) ==
    IF slot[1] = "types" THEN m.stab_types[slot[2]].types[slot[3]]
    ELSE m.stab_tags[slot[2]].slot

\* *slot = t
SlotSet(m, slot, t) ==
    IF slot[1] = "types"
    THEN [m EXCEPT !.stab_types[slot[2]].types[slot[3]] = t]
    ELSE [m EXCEPT !.stab_tags[slot[2]].slot = t]

(***************************************************************************)
(* The type number registry.                                               *)
(***************************************************************************)
STAB_TYPES_SLOTS == 16

\* a < b for two unsigned ints kept as the int with the same 32 bits
ULess(a, b) == IF (a < 0) = (b < 0) THEN a < b ELSE b < 0

\* *ps, where ps is &info->file_types[f] (<<"file", f>>) or
\* &chunk->next (<<"next", chunk>>)
PsGet(m, ps) ==
    IF ps[1] = "file" THEN m.info.file_types[ps[2] + 1]
    ELSE m.stab_types[ps[2]].next

\* the loop of stab_find_slot: advance ps while the chunk starts below base
RECURSIVE stab_find_slot_walk(_, _, _)
stab_find_slot_walk(m, ps, base_index) ==
    LET c == PsGet(m, ps)
    IN  IF c # 0 /\ ULess(m.stab_types[c].base_index, base_index)
        THEN stab_find_slot_walk(m, <<"next", c>>, base_index)
        ELSE ps

\* stab_find_slot that takes the block the search stops at without comparing
\* its base_index
stab_find_slot_anyblock(m, typenums) ==
    LET filenum    == typenums[1]
        offset     == typenums[2] % STAB_TYPES_SLOTS
        base_index == typenums[2] - offset
    IN  IF filenum < 0 \/ filenum >= m.info.files
        THEN [m |-> Report(m, "Type file number out of range"), slot |-> <<>>]
        ELSE Result({
             IF PsGet(m, ps) = 0
             THEN LET n  == Len(m.stab_types) + 1
                      nd == [next |-> PsGet(m, ps), base_index |-> base_index,
                             types |-> [k \in 1..STAB_TYPES_SLOTS |->
                                           DEBUG_TYPE_NULL]]
                  IN  [m |-> IF ps[1] = "file"
                             THEN [m EXCEPT !.stab_types = Append(@, nd),
                                            !.info.file_types[ps[2] + 1] = n]
                             ELSE [m EXCEPT !.stab_types =
                                       Append([@ EXCEPT ![ps[2]].next = n], nd)],
                       slot |-> <<"types", n, offset + 1>>]
             ELSE [m |-> m, slot |-> <<"types", PsGet(m, ps), offset + 1>>] :
             ps \in {stab_find_slot_walk(m, <<"file", filenum>>, base_index)} })

\* the result is [m, slot]; slot is <<>> for the null pointer
stab_find_slot(m, typenums) ==
    LET filenum    == typenums[1]
        offset     == typenums[2] % STAB_TYPES_SLOTS
        base_index == typenums[2] - offset
    IN  IF filenum < 0 \/ filenum >= m.info.files
        THEN [m |-> Report(m, "Type file number out of range"), slot |-> <<>>]
        ELSE Result({
             IF PsGet(m, ps) = 0
                \/ m.stab_types[PsGet(m, ps)].base_index # base_index
             THEN LET n  == Len(m.stab_types) + 1
                      nd == [next |-> PsGet(m, ps), base_index |-> base_index,
                             types |-> [k \in 1..STAB_TYPES_SLOTS |->
                                           DEBUG_TYPE_NULL]]
                  IN  [m |-> IF ps[1] = "file"
                             THEN [m EXCEPT !.stab_types = Append(@, nd),
                                            !.info.file_types[ps[2] + 1] = n]
                             ELSE [m EXCEPT !.stab_types =
                                       Append([@ EXCEPT ![ps[2]].next = n], nd)],
                       slot |-> <<"types", n, offset + 1>>]
             ELSE [m |-> m, slot |-> <<"types", PsGet(m, ps), offset + 1>>] :
             ps \in {stab_find_slot_walk(m, <<"file", filenum>>, base_index)} })

\* the predefined XCOFF types: the node keeps the number of the builtin, and
\* the table of the 34 builtins is not spelled out
XCOFF_TYPE_COUNT == 34

stab_xcoff_builtin_type(m, typenum) ==
    LET n == (0 - typenum) - 1
    IN  IF n >= XCOFF_TYPE_COUNT
        THEN [m |-> Report(m, "Unrecognized XCOFF type"), t |-> DEBUG_TYPE_NULL]
        ELSE IF m.info.xcoff_types[n + 1] # DEBUG_TYPE_NULL
        THEN [m |-> m, t |-> m.info.xcoff_types[n + 1]]
        ELSE LET r == debug_make_type(m, Node("xcoff", NoName, 0, <<>>, n, FALSE))
             IN  [m |-> [r.m EXCEPT !.info.xcoff_types[n + 1] = r.t], t |-> r.t]

stab_find_type(m, typenums) ==
    IF typenums[1] = 0 /\ typenums[2] < 0
    THEN stab_xcoff_builtin_type(m, typenums[2])
    ELSE Result({ IF r.slot = <<>> THEN [m |-> r.m, t |-> DEBUG_TYPE_NULL]
                  ELSE IF SlotGet(r.m, r.slot) = DEBUG_TYPE_NULL
                  THEN debug_make_indirect_type(r.m, r.slot, NoName)
                  ELSE [m |-> r.m, t |-> SlotGet(r.m, r.slot)] :
                  r \in {stab_find_slot(m, typenums)} })

\* stab_record_type that leaves a slot that already holds a type alone
stab_record_type_first(m, typenums, type) ==
    Result({ IF r.slot = <<>> THEN [m |-> r.m, ok |-> FALSE]
             ELSE IF SlotGet(r.m, r.slot) # DEBUG_TYPE_NULL
             THEN [m |-> r.m, ok |-> TRUE]
             ELSE [m |-> SlotSet(r.m, r.slot, type), ok |-> TRUE] :
             r \in {stab_find_slot(m, typenums)} })

\* the result is [m, ok]
stab_record_type(m, typenums, type) ==
    Result({ IF r.slot = <<>> THEN [m |-> r.m, ok |-> FALSE]
             ELSE [m |-> SlotSet(r.m, r.slot, type), ok |-> TRUE] :
             r \in {stab_find_slot(m, typenums)} })

(***************************************************************************)
(* The undefined tag list.  info.tags lists the ids of the entries, the    *)
(* head of the list first.                                                 *)
(***************************************************************************)
\* the first entry of the list with this name, 0 if there is none
RECURSIVE stab_tag_lookup(_, _, _)
stab_tag_lookup(m, list, name) ==
    IF list = <<>> THEN 0
    ELSE IF m.stab_tags[Head(list)].name = name THEN Head(list)
    ELSE stab_tag_lookup(m, Tail(list), name)

\* stab_find_tagged_type that does not search the list of undefined tags
stab_find_tagged_type_new(m, name, kind) ==
    LET dtype == debug_find_tagged_type(m, name)
    IN  IF dtype # DEBUG_TYPE_NULL THEN [m |-> m, t |-> dtype]
        ELSE LET n  == Len(m.stab_tags) + 1
                 r  == debug_make_indirect_type(m, <<"tag", n>>, name)
                 nd == [name |-> name, kind |-> kind, slot |-> DEBUG_TYPE_NULL,
                        type |-> r.t]
             IN  [m |-> [r.m EXCEPT !.stab_tags = Append(@, nd),
                                    !.info.tags = <<n>> \o @],
                  t |-> r.t]

stab_find_tagged_type(m, name, kind) ==
    LET dtype == debug_find_tagged_type(m, name)
        st    == stab_tag_lookup(m, m.info.tags, name)
    IN  IF dtype # DEBUG_TYPE_NULL THEN [m |-> m, t |-> dtype]
        ELSE IF st # 0
        THEN [m |-> IF m.stab_tags[st].kind = "DEBUG_KIND_ILLEGAL"
                    THEN [m EXCEPT !.stab_tags[st].kind = kind]
                    ELSE m,
              t |-> m.stab_tags[st].type]
        ELSE LET n  == Len(m.stab_tags) + 1
                 r  == debug_make_indirect_type(m, <<"tag", n>>, name)
                 nd == [name |-> name, kind |-> kind, slot |-> DEBUG_TYPE_NULL,
                        type |-> r.t]
             IN  [m |-> [r.m EXCEPT !.stab_tags = Append(@, nd),
                                    !.info.tags = <<n>> \o @],
                  t |-> r.t]

(***************************************************************************)
(* parse_stab_type and the parsers of its descriptors.                     *)
(***************************************************************************)
\* parse_number called with no overflow flag: the overflow is reported
parse_number_warn(m, s, pp) ==
    Result({ [m |-> IF r.ov THEN warn_stab(m, "numeric overflow") ELSE m,
              v |-> r.v, pp |-> r.pp] :
             r \in {parse_number(s, pp)} })

\* the result is [m, ok, typenums, pp]
parse_stab_type_number(m, s, pp) ==
    Result({
        IF At(s, pp) # "("
        THEN [m |-> r1.m, ok |-> TRUE, typenums |-> <<0, VmaToInt(r1.v)>>,
              pp |-> r1.pp]
        ELSE IF At(s, r1.pp) # ","
        THEN [m |-> bad_stab(r1.m), ok |-> FALSE, typenums |-> <<0, 0>>,
              pp |-> r1.pp]
        ELSE Result({
             IF At(s, r2.pp) # ")"
             THEN [m |-> bad_stab(r2.m), ok |-> FALSE, typenums |-> <<0, 0>>,
                   pp |-> r2.pp]
             ELSE [m |-> r2.m, ok |-> TRUE,
                   typenums |-> <<VmaToInt(r1.v), VmaToInt(r2.v)>>,
                   pp |-> r2.pp + 1] :
             r2 \in {parse_number_warn(r1.m, s, r1.pp + 1)} }) :
        r1 \in {parse_number_warn(m, s, IF At(s, pp) = "(" THEN pp + 1 ELSE pp)} })

\* atoi on the digits at pp (the attribute sizes of the model are small)
RECURSIVE atoi_digits(_, _, _)
atoi_digits(s, pp, acc) ==
    IF ISDIGIT(At(s, pp)) THEN atoi_digits(s, pp + 1, acc * 10 + DigitVal(At(s, pp)))
    ELSE acc

atoi(s, pp) ==
    IF At(s, pp) = "-" THEN 0 - atoi_digits(s, pp + 1, 0)
    ELSE IF At(s, pp) = "+" THEN atoi_digits(s, pp + 1, 0)
    ELSE atoi_digits(s, pp, 0)

\* the type attributes "@...;" in front of a descriptor: the result is
\* [ok, pp, size, stringp]
RECURSIVE parse_stab_type_attrs(_, _, _, _)
parse_stab_type_attrs(s, pp, size, stringp) ==
    IF At(s, pp) # "@"
    THEN [ok |-> TRUE, pp |-> pp, size |-> size, stringp |-> stringp]
    ELSE IF ISDIGIT(At(s, pp + 1)) \/ At(s, pp + 1) \in {"(", "-"}
    THEN [ok |-> TRUE, pp |-> pp, size |-> size, stringp |-> stringp]
    ELSE LET attr == pp + 1
             semi == strchr(s, attr, ";")
         IN  IF semi = 0
             THEN [ok |-> FALSE, pp |-> pp, size |-> size, stringp |-> stringp]
             ELSE IF At(s, attr) = "s"
             THEN LET sz == atoi(s, attr + 1) \div 8
                  IN  parse_stab_type_attrs(s, semi + 1,
                          IF sz <= 0 THEN -1 ELSE sz, stringp)
             ELSE IF At(s, attr) = "S"
             THEN parse_stab_type_attrs(s, semi + 1, size, TRUE)
             ELSE parse_stab_type_attrs(s, semi + 1, size, stringp)

\* the end of the name of a cross reference, which may hold template
\* arguments with "::" in them: the index of the ':' ending it, 0 if none
RECURSIVE stab_xref_nest(_, _, _)
stab_xref_nest(s, q2, nest) ==
    IF At(s, q2) = NUL THEN q2
    ELSE IF At(s, q2) = "<" THEN stab_xref_nest(s, q2 + 1, nest + 1)
    ELSE IF At(s, q2) = ">" THEN stab_xref_nest(s, q2 + 1, nest - 1)
    ELSE IF At(s, q2) = ":" /\ nest = 0 THEN q2
    ELSE stab_xref_nest(s, q2 + 1, nest)

stab_xref_name_end(s, pp) ==
    LET q1 == strchr(s, pp, "<")
        p  == strchr(s, pp, ":")
    IN  IF p = 0 THEN 0
        ELSE IF q1 # 0 /\ p > q1 /\ At(s, p + 1) = ":"
        THEN LET q2 == stab_xref_nest(s, q1, 0)
             IN  IF At(s, q2) # ":" THEN 0 ELSE q2
        ELSE p

NullType(m, pp) == [m |-> m, t |-> DEBUG_TYPE_NULL, pp |-> pp]

LongLongInt == <<"l", "o", "n", "g", " ", "l", "o", "n", "g", " ", "i", "n", "t">>

LongLongUnsignedInt ==
    <<"l", "o", "n", "g", " ", "l", "o", "n", "g", " ",
      "u", "n", "s", "i", "g", "n", "e", "d", " ", "i", "n", "t">>

\* -x - 1 on bfd_signed_vma
VmaNot(v) == <<Limb - 1 - v[1], Limb - 1 - v[2], Limb - 1 - v[3], Limb - 1 - v[4]>>

Builtin(kind, size, unsignedp) == [kind |-> kind, size |-> size, unsignedp |-> unsignedp]

\* the upper bound -1 without a look at the name of the type
stab_range_unsigned_int_nohint(type_name) == Builtin("int", 4, TRUE)

\* the bounds 0 and -1: an unsigned int, but for the two names that gcc
\* gives such bounds
stab_range_unsigned_int(type_name) ==
    IF type_name # NoName /\ type_name = LongLongInt
    THEN Builtin("int", 8, FALSE)
    ELSE IF type_name # NoName /\ type_name = LongLongUnsignedInt
    THEN Builtin("int", 8, TRUE)
    ELSE Builtin("int", 4, TRUE)

\* stab_range_builtin with the test for a floating point type ahead of the
\* test for a complex type
stab_range_builtin_floatfirst(self_subrange, n2, n3, type_name) ==
    IF self_subrange /\ n2 = VmaZero /\ n3 = VmaZero
    THEN Builtin("void", 0, FALSE)
    ELSE IF n3 = VmaZero /\ VmaIsPos(n2)
    THEN Builtin("float", VmaToInt(n2), FALSE)
    ELSE IF self_subrange /\ n3 = VmaZero /\ VmaIsPos(n2)
    THEN Builtin("complex", VmaToInt(n2), FALSE)
    ELSE IF n2 = VmaZero /\ n3 = VmaMinus1
    THEN stab_range_unsigned_int(type_name)
    ELSE IF self_subrange /\ n2 = VmaZero /\ n3 = VmaOfNat(127)
    THEN Builtin("int", 1, FALSE)
    ELSE IF n2 = VmaZero
    THEN IF VmaIsNeg(n3) THEN Builtin("int", VmaToInt(VmaNeg(n3)), TRUE)
         ELSE IF n3 = VmaOfNat(255) THEN Builtin("int", 1, TRUE)
         ELSE IF n3 = VmaOfNat(Limb - 1) THEN Builtin("int", 2, TRUE)
         ELSE IF n3 = <<Limb - 1, Limb - 1, 0, 0>> THEN Builtin("int", 4, TRUE)
         ELSE IF n3 = VmaMinus1 THEN Builtin("int", 8, TRUE)
         ELSE Builtin("none", 0, FALSE)
    ELSE IF n3 = VmaZero /\ VmaIsNeg(n2)
            /\ (self_subrange \/ n2 = VmaNeg(VmaOfNat(8)))
    THEN Builtin("int", VmaToInt(VmaNeg(n2)), TRUE)
    ELSE IF n2 = VmaNot(n3) \/ n2 = VmaAdd1(n3)
    THEN IF n3 = VmaOfNat(127) THEN Builtin("int", 1, FALSE)
         ELSE IF n3 = VmaOfNat(Limb \div 2 - 1) THEN Builtin("int", 2, FALSE)
         ELSE IF n3 = <<Limb - 1, Limb \div 2 - 1, 0, 0>> THEN Builtin("int", 4, FALSE)
         ELSE IF n3 = <<Limb - 1, Limb - 1, Limb - 1, Limb \div 2 - 1>>
         THEN Builtin("int", 8, FALSE)
         ELSE Builtin("none", 0, FALSE)
    ELSE Builtin("none", 0, FALSE)

\* The special cases of a range without an index type definition: what the
\* bounds n2, n3 stand for, kind "none" when they are no special case.
stab_range_builtin(self_subrange, n2, n3, type_name) ==
    IF self_subrange /\ n2 = VmaZero /\ n3 = VmaZero
    THEN Builtin("void", 0, FALSE)
    ELSE IF self_subrange /\ n3 = VmaZero /\ VmaIsPos(n2)
    THEN Builtin("complex", VmaToInt(n2), FALSE)
    ELSE IF n3 = VmaZero /\ VmaIsPos(n2)
    THEN Builtin("float", VmaToInt(n2), FALSE)
    ELSE IF n2 = VmaZero /\ n3 = VmaMinus1
    THEN stab_range_unsigned_int(type_name)
    ELSE IF self_subrange /\ n2 = VmaZero /\ n3 = VmaOfNat(127)
    THEN Builtin("int", 1, FALSE)
    ELSE IF n2 = VmaZero
    THEN IF VmaIsNeg(n3) THEN Builtin("int", VmaToInt(VmaNeg(n3)), TRUE)
         ELSE IF n3 = VmaOfNat(255) THEN Builtin("int", 1, TRUE)
         ELSE IF n3 = VmaOfNat(Limb - 1) THEN Builtin("int", 2, TRUE)
         ELSE IF n3 = <<Limb - 1, Limb - 1, 0, 0>> THEN Builtin("int", 4, TRUE)
         ELSE IF n3 = VmaMinus1 THEN Builtin("int", 8, TRUE)
         ELSE Builtin("none", 0, FALSE)
    ELSE IF n3 = VmaZero /\ VmaIsNeg(n2)
            /\ (self_subrange \/ n2 = VmaNeg(VmaOfNat(8)))
    THEN Builtin("int", VmaToInt(VmaNeg(n2)), TRUE)
    ELSE IF n2 = VmaNot(n3) \/ n2 = VmaAdd1(n3)
    THEN IF n3 = VmaOfNat(127) THEN Builtin("int", 1, FALSE)
         ELSE IF n3 = VmaOfNat(Limb \div 2 - 1) THEN Builtin("int", 2, FALSE)
         ELSE IF n3 = <<Limb - 1, Limb \div 2 - 1, 0, 0>> THEN Builtin("int", 4, FALSE)
         ELSE IF n3 = <<Limb - 1, Limb - 1, Limb - 1, Limb \div 2 - 1>>
         THEN Builtin("int", 8, FALSE)
         ELSE Builtin("none", 0, FALSE)
    ELSE Builtin("none", 0, FALSE)

\* the sink call with true for the unsigned flag of every integer
stab_make_builtin_unsigned(m, b, pp) ==
    LET r == CASE b.kind = "void" -> debug_make_void_type(m)
               [] b.kind = "complex" -> debug_make_complex_type(m, b.size)
               [] b.kind = "float" -> debug_make_float_type(m, b.size)
               [] OTHER -> debug_make_int_type(m, b.size, TRUE)
    IN  [m |-> r.m, t |-> r.t, pp |-> pp]

\* the sink call that makes the builtin
stab_make_builtin(m, b, pp) ==
    LET r == CASE b.kind = "void" -> debug_make_void_type(m)
               [] b.kind = "complex" -> debug_make_complex_type(m, b.size)
               [] b.kind = "float" -> debug_make_float_type(m, b.size)
               [] OTHER -> debug_make_int_type(m, b.size, b.unsignedp)
    IN  [m |-> r.m, t |-> r.t, pp |-> pp]

LLLOW == <<"0", "1", "0", "0", "0", "0", "0", "0", "0", "0", "0", "0", "0",
           "0", "0", "0", "0", "0", "0", "0", "0", "0", "0", ";">>

LLHIGH == <<"0", "7", "7", "7", "7", "7", "7", "7", "7", "7", "7", "7", "7",
            "7", "7", "7", "7", "7", "7", "7", "7", "7", ";">>

ULLHIGH == <<"0", "1", "7", "7", "7", "7", "7", "7", "7", "7", "7", "7", "7",
             "7", "7", "7", "7", "7", "7", "7", "7", "7", "7", ";">>

RECURSIVE parse_stab_type(_, _, _, _, _)
RECURSIVE parse_stab_range_type(_, _, _, _, _)

\* after the bounds have been read: s2, s3 are where their text starts
parse_stab_range_bounds(m, s, type_name, orig, rangenums, self_subrange, index_type, s2, n2, s3, n3, pp) ==
    LET ov      == n2.ov \/ n3.ov
        noindex == index_type = DEBUG_TYPE_NULL
        m1      == IF ov THEN warn_stab(m, "numeric overflow") ELSE m
    IN  IF ov /\ noindex /\ startswith(s, s2, LLLOW) /\ startswith(s, s3, LLHIGH)
        THEN stab_make_builtin(m, Builtin("int", 8, FALSE), pp)
        ELSE IF ov /\ noindex /\ ~n2.ov /\ n2.v = VmaZero
                /\ startswith(s, s3, ULLHIGH)
        THEN stab_make_builtin(m, Builtin("int", 8, TRUE), pp)
        ELSE Result({
             IF noindex /\ b.kind # "none" THEN stab_make_builtin(m1, b, pp)
             ELSE IF self_subrange THEN NullType(bad_stab(m1), pp)
             ELSE Result({
                  LET ix == IF f.t = DEBUG_TYPE_NULL
                            THEN debug_make_int_type(
                                     warn_stab(f.m, "missing index type"), 4, FALSE)
                            ELSE f
                      r  == debug_make_range_type(ix.m, ix.t, n2.v, n3.v)
                  IN  [m |-> r.m, t |-> r.t, pp |-> pp] :
                  f \in {stab_find_type(m1, rangenums)} }) :
             b \in {stab_range_builtin(self_subrange, n2.v, n3.v, type_name)} })

parse_stab_range_type(m, s, type_name, orig, typenums) ==
    IF orig >= Len(s) + 1 THEN NullType(m, orig)
    ELSE Result({
         IF ~rn.ok THEN NullType(rn.m, rn.pp)
         ELSE Result({
              IF At(s, rn.pp) = "=" /\ ix.t = DEBUG_TYPE_NULL
              THEN NullType(ix.m, ix.pp)
              ELSE Result({
                   IF At(s, n2.pp) # ";" THEN NullType(bad_stab(ix.m), n2.pp)
                   ELSE Result({
                        IF At(s, n3.pp) # ";"
                        THEN NullType(bad_stab(ix.m), n3.pp)
                        ELSE parse_stab_range_bounds(ix.m, s, type_name, orig,
                                 rn.typenums, rn.typenums = typenums, ix.t,
                                 IF At(s, ix.pp) = ";" THEN ix.pp + 1 ELSE ix.pp,
                                 n2, n2.pp + 1, n3, n3.pp + 1) :
                        n3 \in {parse_number(s, n2.pp + 1)} }) :
                   n2 \in {parse_number(s, IF At(s, ix.pp) = ";" THEN ix.pp + 1
                                           ELSE ix.pp)} }) :
              ix \in {IF At(s, rn.pp) = "="
                      THEN parse_stab_type(rn.m, s, NoName, orig, FALSE)
                      ELSE [m |-> rn.m, t |-> DEBUG_TYPE_NULL, pp |-> rn.pp]} }) :
         rn \in {parse_stab_type_number(m, s, orig)} })

\* case 'x' without the test for a cross reference to the type being defined
parse_stab_type_xref_noself(m, s, type_name, pp) ==
    LET c    == At(s, pp)
        code == CASE c = "s" -> "DEBUG_KIND_STRUCT"
                  [] c = "u" -> "DEBUG_KIND_UNION"
                  [] c = "e" -> "DEBUG_KIND_ENUM"
                  [] OTHER -> "DEBUG_KIND_STRUCT"
        m1   == IF c \in {"s", "u", "e"} THEN m
                ELSE warn_stab(m, "unrecognized cross reference type")
        from == pp + 1
    IN  IF c = NUL THEN NullType(bad_stab(m), pp)
        ELSE Result({
             IF p = 0 THEN NullType(bad_stab(m1), from)
             ELSE Result({ [m |-> r.m, t |-> r.t, pp |-> p + 1] :
                           r \in {stab_find_tagged_type(m1, Sub(s, from, p), code)} }) :
             p \in {stab_xref_name_end(s, from)} })

\* case 'x': a cross reference to a tag
parse_stab_type_xref(m, s, type_name, pp) ==
    LET c    == At(s, pp)
        code == CASE c = "s" -> "DEBUG_KIND_STRUCT"
                  [] c = "u" -> "DEBUG_KIND_UNION"
                  [] c = "e" -> "DEBUG_KIND_ENUM"
                  [] OTHER -> "DEBUG_KIND_STRUCT"
        m1   == IF c \in {"s", "u", "e"} THEN m
                ELSE warn_stab(m, "unrecognized cross reference type")
        from == pp + 1
    IN  IF c = NUL THEN NullType(bad_stab(m), pp)
        ELSE Result({
             IF p = 0 THEN NullType(bad_stab(m1), from)
             ELSE Result({ [m |-> r.m, t |-> r.t, pp |-> p + 1] :
                           r \in {stab_find_tagged_type(
                                      IF type_name # NoName
                                         /\ type_name = Sub(s, from, p)
                                      THEN [m1 EXCEPT !.info.self_crossref = TRUE]
                                      ELSE m1,
                                      Sub(s, from, p), code)} }) :
             p \in {stab_xref_name_end(s, from)} })

\* case '-', '0'..'9', '(': the type is defined as another type; hold is
\* where the number starts
parse_stab_type_alias(m, s, hold, typenums) ==
    Result({
        IF ~xn.ok THEN NullType(xn.m, xn.pp)
        ELSE Result({
             IF r.t = DEBUG_TYPE_NULL THEN NullType(r.m, r.pp)
             ELSE IF typenums[1] # -1
             THEN Result({ IF ~rec.ok THEN NullType(rec.m, r.pp)
                           ELSE [m |-> rec.m, t |-> r.t, pp |-> r.pp] :
                           rec \in {stab_record_type(r.m, typenums, r.t)} })
             ELSE [m |-> r.m, t |-> r.t, pp |-> r.pp] :
             r \in {IF typenums = xn.typenums
                    THEN LET v == debug_make_void_type(xn.m)
                         IN  [m |-> v.m, t |-> v.t, pp |-> xn.pp]
                    ELSE parse_stab_type(xn.m, s, NoName, hold, FALSE)} }) :
        xn \in {parse_stab_type_number(m, s, hold)} })

\* the descriptors that wrap one inner type
parse_stab_type_wrap(m, s, pp, kind) ==
    Result({ LET w == IF r.t = DEBUG_TYPE_NULL
                      THEN [m |-> r.m, t |-> DEBUG_TYPE_NULL]
                      ELSE debug_make_type(r.m, Node(kind, NoName, r.t, <<>>, 0, FALSE))
             IN  [m |-> w.m, t |-> w.t, pp |-> r.pp] :
             r \in {parse_stab_type(m, s, NoName, pp, FALSE)} })

(***************************************************************************)
(* The demangler of the names of g++ before the V3 ABI.  minfo is the      *)
(* record mi: the machine m and typestrings, the places in the mangled     *)
(* name s where the types remembered begin.  The qualified names ('Q'),    *)
(* the templates ('t') among the arguments and the pointers to members     *)
(* ('M', 'O') are not part of this model and no name of the model uses     *)
(* them; the template that is the class of the function is.                *)
(***************************************************************************)
stab_bad_demangle(mi) == [mi EXCEPT !.m = Report(@, "bad mangled name")]

\* the digits at pp read into the unsigned int count, two limbs
RECURSIVE stab_demangle_count_from(_, _, _)
stab_demangle_count_from(s, pp, count) ==
    IF ~ISDIGIT(At(s, pp))
    THEN [n |-> IF count[2] = 0 THEN count[1] ELSE Limb, pp |-> pp]
    ELSE LET t1 == count[1] * 10 + DigitVal(At(s, pp))
             t2 == count[2] * 10 + (t1 \div Limb)
         IN  stab_demangle_count_from(s, pp + 1, <<t1 % Limb, t2 % Limb>>)

\* the result is [n, pp]; a count of 65536 or more is read as 65536, more
\* than the length of any name of the model
stab_demangle_count(s, pp) == stab_demangle_count_from(s, pp, <<0, 0>>)

\* the result is [ok, i, pp]
stab_demangle_get_count(s, pp) ==
    IF ~ISDIGIT(At(s, pp)) THEN [ok |-> FALSE, i |-> 0, pp |-> pp]
    ELSE IF ~ISDIGIT(At(s, pp + 1))
    THEN [ok |-> TRUE, i |-> DigitVal(At(s, pp)), pp |-> pp + 1]
    ELSE Result({ IF At(s, c.pp) = "_"
                  THEN [ok |-> TRUE, i |-> c.n, pp |-> c.pp + 1]
                  ELSE [ok |-> TRUE, i |-> DigitVal(At(s, pp)), pp |-> pp + 1] :
                  c \in {stab_demangle_count_from(s, pp + 1,
                                                  <<DigitVal(At(s, pp)), 0>>)} })

\* the result is [mi, ok, pp, start]
stab_demangle_class(mi, s, orig) ==
    Result({ IF Len(s) + 1 - c.pp < c.n
             THEN [mi |-> stab_bad_demangle(mi), ok |-> FALSE, pp |-> c.pp,
                   start |-> c.pp]
             ELSE [mi |-> mi, ok |-> TRUE, pp |-> c.pp + c.n, start |-> c.pp] :
             c \in {stab_demangle_count(s, orig)} })

stab_demangle_remember_type(mi, p, len) ==
    [mi EXCEPT !.typestrings = Append(@, [typestring |-> p, len |-> len])]

\* stab_demangle_remembered that takes the type remembered last for not
\* remembered yet
stab_demangle_remembered_butlast(mi, t, at) ==
    [ok |-> t.ok /\ t.i + 1 < Len(mi.typestrings),
     mi |-> IF ~t.ok THEN mi
            ELSE [mi EXCEPT !.refs = Append(@,
                     [at |-> at, i |-> t.i, count |-> Len(mi.typestrings),
                      ok |-> t.i + 1 < Len(mi.typestrings)])]]

\* a back reference at the place at, with the count t that was read: it is
\* taken when t is less than typestring_count.  The result is [ok, mi];
\* refs is the list of the back references met, each with the number of the
\* types remembered then
stab_demangle_remembered(mi, t, at) ==
    [ok |-> t.ok /\ t.i < Len(mi.typestrings),
     mi |-> IF ~t.ok THEN mi
            ELSE [mi EXCEPT !.refs = Append(@,
                     [at |-> at, i |-> t.i, count |-> Len(mi.typestrings),
                      ok |-> t.i < Len(mi.typestrings)])]]

\* the value of a debug_type that was never assigned; no name of the model
\* leaves one to be read
Unassigned == -1

\* the modifiers at the head of a fundamental type: [pp, constp, volatilep,
\* unsignedp, signedp]
RECURSIVE stab_demangle_fund_modifiers(_, _, _)
stab_demangle_fund_modifiers(s, pp, f) ==
    CASE At(s, pp) = "C" ->
             stab_demangle_fund_modifiers(s, pp + 1, [f EXCEPT !.constp = TRUE])
      [] At(s, pp) = "U" ->
             stab_demangle_fund_modifiers(s, pp + 1, [f EXCEPT !.unsignedp = TRUE])
      [] At(s, pp) = "S" ->
             stab_demangle_fund_modifiers(s, pp + 1, [f EXCEPT !.signedp = TRUE])
      [] At(s, pp) = "V" ->
             stab_demangle_fund_modifiers(s, pp + 1, [f EXCEPT !.volatilep = TRUE])
      [] OTHER -> [f EXCEPT !.pp = pp]

\* the type of the sink with this name, or the type made when it has none:
\* made is <<"int", size, unsignedp>>, <<"float", size>>, <<"void">> or
\* <<"bool", size>>
stab_demangle_named(m, name, made) ==
    Result({
        IF n # DEBUG_TYPE_NULL THEN [m |-> m, t |-> n]
        ELSE CASE made[1] = "int" -> debug_make_int_type(m, made[2], made[3])
               [] made[1] = "float" -> debug_make_float_type(m, made[2])
               [] made[1] = "void" -> debug_make_void_type(m)
               [] OTHER -> debug_make_type(m, Node("bool", NoName, 0, <<>>,
                                                   made[2], FALSE)) :
        n \in {debug_find_named_type(m, name)} })

\* the result is [mi, ok, pp, t]; t0 is what *ptype holds at the call
stab_demangle_fund_type(mi, s, orig, want, t0) ==
    Result({
        LET c  == At(s, f.pp)
            No(mi1, at) == [mi |-> mi1, ok |-> FALSE, pp |-> at, t |-> t0]
            U(sgn, uns) == IF f.unsignedp THEN uns ELSE sgn
            \* the cases of the switch that name a type: the name looked up
            \* and the type made when the sink has none of that name
            known ==
                CASE c = "v" -> << <<"v", "o", "i", "d">>, <<"void">> >>
                  [] c = "x" ->
                         << U(<<"l", "o", "n", "g", " ", "l", "o", "n", "g", " ", "i", "n", "t">>,
                              <<"l", "o", "n", "g", " ", "l", "o", "n", "g", " ", "u", "n", "s", "i", "g", "n", "e", "d", " ", "i", "n", "t">>),
                            <<"int", 8, f.unsignedp>> >>
                  [] c = "l" ->
                         << U(<<"l", "o", "n", "g", " ", "l", "o", "n", "g", " ", "i", "n", "t">>,
                              <<"l", "o", "n", "g", " ", "l", "o", "n", "g", " ", "u", "n", "s", "i", "g", "n", "e", "d", " ", "i", "n", "t">>),
                            <<"int", 4, f.unsignedp>> >>
                  [] c = "i" ->
                         << U(<<"i", "n", "t">>,
                              <<"u", "n", "s", "i", "g", "n", "e", "d", " ", "i", "n", "t">>),
                            <<"int", 4, f.unsignedp>> >>
                  [] c = "s" ->
                         << U(<<"s", "h", "o", "r", "t", " ", "i", "n", "t">>,
                              <<"s", "h", "o", "r", "t", " ", "u", "n", "s", "i", "g", "n", "e", "d", " ", "i", "n", "t">>),
                            <<"int", 2, f.unsignedp>> >>
                  [] c = "b" -> << <<"b", "o", "o", "l">>, <<"bool", 4>> >>
                  [] c = "c" ->
                         << IF f.unsignedp
                            THEN <<"u", "n", "s", "i", "g", "n", "e", "d", " ", "c", "h", "a", "r">>
                            ELSE IF f.signedp
                            THEN <<"s", "i", "g", "n", "e", "d", " ", "c", "h", "a", "r">>
                            ELSE <<"c", "h", "a", "r">>,
                            <<"int", 1, f.unsignedp>> >>
                  [] c = "w" ->
                         << <<"_", "_", "w", "c", "h", "a", "r", "_", "t">>,
                            <<"int", 2, TRUE>> >>
                  [] c = "r" ->
                         << <<"l", "o", "n", "g", " ", "l", "o", "n", "g", " ", "d", "o", "u", "b", "l", "e">>,
                            <<"float", 8>> >>
                  [] c = "d" -> << <<"d", "o", "u", "b", "l", "e">>, <<"float", 8>> >>
                  [] c = "f" -> << <<"f", "l", "o", "a", "t">>, <<"float", 4>> >>
                  [] OTHER -> <<>>
            bad   == c \in {NUL, "_"}
            class == c = "G" \/ ISDIGIT(c)
        IN  CASE c = "G" /\ ~ISDIGIT(At(s, f.pp + 1)) ->
                     No(stab_bad_demangle(mi), f.pp + 1)
              [] c = "t" ->
                     No([mi EXCEPT !.m = Report(@, "mangling outside the model")],
                        f.pp)
              [] ~bad /\ ~class /\ known = <<>> -> No(stab_bad_demangle(mi), f.pp)
              [] OTHER ->
                     \* after the switch: the const and volatile of the
                     \* modifiers are put around the type when one is wanted
                     Result({
                         IF ~cl.ok THEN No(cl.mi, cl.pp)
                         ELSE IF class /\ ~want
                         THEN [mi |-> mi, ok |-> TRUE, pp |-> cl.pp, t |-> t0]
                         ELSE Result({ Result({ Result({
                              [mi |-> [mi EXCEPT !.m = q2.m], ok |-> TRUE,
                               pp |-> cl.pp, t |-> q2.t] :
                              q2 \in {IF want /\ f.volatilep
                                      THEN debug_make_modified_type(q1.m,
                                               "volatile", q1.t)
                                      ELSE q1} }) :
                              q1 \in {IF want /\ f.constp
                                      THEN debug_make_modified_type(r.m, "const",
                                                                    r.t)
                                      ELSE r} }) :
                              r \in {CASE bad -> [m |-> Report(mi.m, "bad mangled name"),
                                                  t |-> t0]
                                       [] class ->
                                              Result({
                                                  IF n # DEBUG_TYPE_NULL
                                                  THEN [m |-> mi.m, t |-> n]
                                                  ELSE stab_find_tagged_type(mi.m,
                                                           Sub(s, cl.start, cl.pp),
                                                           "DEBUG_KIND_ILLEGAL") :
                                                  n \in {debug_find_named_type(mi.m,
                                                             Sub(s, cl.start, cl.pp))} })
                                       [] OTHER ->
                                              IF want
                                              THEN stab_demangle_named(mi.m, known[1],
                                                                       known[2])
                                              ELSE [m |-> mi.m, t |-> t0]} }) :
                         cl \in {IF class
                                 THEN stab_demangle_class(mi, s,
                                          IF c = "G" THEN f.pp + 1 ELSE f.pp)
                                 ELSE [mi |-> mi, ok |-> TRUE, start |-> f.pp,
                                       pp |-> IF bad THEN f.pp ELSE f.pp + 1]} }) :
        f \in {stab_demangle_fund_modifiers(s, orig,
                   [pp |-> orig, constp |-> FALSE, volatilep |-> FALSE,
                    unsignedp |-> FALSE, signedp |-> FALSE])} })

RECURSIVE stab_demangle_type(_, _, _, _, _)
RECURSIVE stab_demangle_args(_, _, _, _)

\* the digits of the bound of an array up to the '_'; the result is
\* [ok, high, pp]
RECURSIVE stab_demangle_array_high(_, _, _)
stab_demangle_array_high(s, pp, high) ==
    IF At(s, pp) \in {NUL, "_"}
    THEN [ok |-> At(s, pp) = "_", high |-> high, pp |-> pp]
    ELSE IF ~ISDIGIT(At(s, pp)) THEN [ok |-> FALSE, high |-> high, pp |-> pp]
    ELSE stab_demangle_array_high(s, pp + 1,
             VmaMulAdd(high, 10, DigitVal(At(s, pp))).v)

\* the result is [mi, ok, pp, t]; with want = FALSE the call has ptype NULL.
\* t0 is what *ptype holds at the call
stab_demangle_type(mi, s, orig, want, t0) ==
    LET c == At(s, orig)
        No(mi1, at) == [mi |-> mi1, ok |-> FALSE, pp |-> at, t |-> t0]
        Made(mi1, r, at) == [mi |-> [mi1 EXCEPT !.m = r.m], ok |-> TRUE,
                             pp |-> at, t |-> r.t]
    IN  CASE c \in {"P", "p", "R", "C", "G"} ->
                 Result({
                     IF ~in.ok \/ ~want \/ c = "G" THEN in
                     ELSE Made(in.mi,
                               IF c \in {"P", "p"}
                               THEN debug_make_pointer_type(in.mi.m, in.t)
                               ELSE debug_make_modified_type(in.mi.m,
                                        IF c = "R" THEN "reference" ELSE "const",
                                        in.t),
                               in.pp) :
                     in \in {stab_demangle_type(mi, s, orig + 1, want, t0)} })
          [] c = "A" ->
                 Result({
                     IF ~h.ok THEN No(stab_bad_demangle(mi), h.pp)
                     ELSE Result({
                          IF ~in.ok \/ ~want THEN in
                          ELSE Result({
                               Made(in.mi,
                                    debug_make_array_type(ix.m, in.t, ix.t,
                                        VmaZero, h.high, FALSE),
                                    in.pp) :
                               ix \in {stab_demangle_named(in.mi.m,
                                           <<"i", "n", "t">>,
                                           <<"int", 4, FALSE>>)} }) :
                          in \in {stab_demangle_type(mi, s, h.pp + 1, want, t0)} }) :
                     h \in {stab_demangle_array_high(s, orig + 1, VmaZero)} })
          [] c = "T" ->
                 Result({ Result({
                     IF ~b.ok THEN No(stab_bad_demangle(b.mi), i.pp)
                     ELSE Result({ [in EXCEPT !.pp = i.pp] :
                                   in \in {stab_demangle_type(b.mi, s,
                                               mi.typestrings[i.i + 1].typestring,
                                               want, t0)} }) :
                     b \in {stab_demangle_remembered(mi, i, orig)} }) :
                     i \in {stab_demangle_get_count(s, orig + 1)} })
          [] c = "F" ->
                 Result({
                     IF ~a.ok THEN No(a.mi, a.pp)
                     ELSE IF At(s, a.pp) # "_" THEN No(stab_bad_demangle(a.mi), a.pp)
                     ELSE Result({
                          IF ~in.ok \/ ~want THEN in
                          ELSE Made(in.mi,
                                    debug_make_function_type(in.mi.m, in.t, TRUE,
                                        a.args, a.varargs),
                                    in.pp) :
                          in \in {stab_demangle_type(a.mi, s, a.pp + 1, want,
                                                     t0)} }) :
                     a \in {stab_demangle_args(mi, s, orig + 1, want)} })
          [] c \in {"M", "O", "Q"} ->
                 No([mi EXCEPT !.m = Report(@, "mangling outside the model")], orig)
          [] OTHER -> stab_demangle_fund_type(mi, s, orig, want, t0)

\* the result is [mi, ok, pp, args]; the local variable type of the function
\* is never assigned before the call of stab_demangle_type
stab_demangle_arg(mi, s, start, want, args) ==
    Result({
        IF ~r.ok THEN [mi |-> r.mi, ok |-> FALSE, pp |-> r.pp, args |-> args]
        ELSE IF want /\ r.t = DEBUG_TYPE_NULL
        THEN [mi |-> stab_demangle_remember_type(r.mi, start, r.pp - start), ok |-> FALSE,
              pp |-> r.pp, args |-> args]
        ELSE [mi |-> stab_demangle_remember_type(r.mi, start, r.pp - start), ok |-> TRUE,
              pp |-> r.pp, args |-> IF want THEN Append(args, r.t) ELSE args] :
        r \in {stab_demangle_type(mi, s, start, want, Unassigned)} })

\* the arguments that 'N' and 'T' repeat: r times the type remembered at tem
RECURSIVE stab_demangle_args_repeat(_, _, _, _, _, _)
stab_demangle_args_repeat(mi, s, tem, want, args, r) ==
    IF r = 0 THEN [mi |-> mi, ok |-> TRUE, pp |-> tem, args |-> args]
    ELSE Result({
         IF ~a.ok THEN a
         ELSE stab_demangle_args_repeat(a.mi, s, tem, want, a.args, r - 1) :
         a \in {stab_demangle_arg(mi, s, tem, want, args)} })

\* the loop of stab_demangle_args; the result is [mi, ok, pp, args]
RECURSIVE stab_demangle_args_loop(_, _, _, _, _)
stab_demangle_args_loop(mi, s, pp, want, args) ==
    LET Bad(at) == [mi |-> stab_bad_demangle(mi), ok |-> FALSE, pp |-> at,
                    args |-> args]
    IN  IF At(s, pp) \in {"_", NUL, "e"}
        THEN [mi |-> mi, ok |-> TRUE, pp |-> pp, args |-> args]
        ELSE IF At(s, pp) \in {"N", "T"}
        THEN Result({
             IF ~r.ok THEN Bad(r.pp)
             ELSE Result({ Result({
                  IF ~b.ok
                  THEN [mi |-> stab_bad_demangle(b.mi), ok |-> FALSE, pp |-> t.pp,
                        args |-> args]
                  ELSE Result({
                       IF ~a.ok THEN a
                       ELSE stab_demangle_args_loop(a.mi, s, t.pp, want, a.args) :
                       a \in {stab_demangle_args_repeat(b.mi, s,
                                  mi.typestrings[t.i + 1].typestring, want, args,
                                  r.i)} }) :
                  b \in {stab_demangle_remembered(mi, t, pp)} }) :
                  t \in {stab_demangle_get_count(s, r.pp)} }) :
             r \in {IF At(s, pp) = "T" THEN [ok |-> TRUE, i |-> 1, pp |-> pp + 1]
                    ELSE stab_demangle_get_count(s, pp + 1)} })
        ELSE Result({
             IF ~a.ok THEN a
             ELSE stab_demangle_args_loop(a.mi, s, a.pp, want, a.args) :
             a \in {stab_demangle_arg(mi, s, pp, want, args)} })

\* the result is [mi, ok, pp, hasargs, args, varargs]: hasargs is
\* *pargs != NULL
stab_demangle_args(mi, s, orig, want) ==
    Result({
        IF ~l.ok
        THEN [mi |-> l.mi, ok |-> FALSE, pp |-> l.pp, hasargs |-> FALSE,
              args |-> <<>>, varargs |-> FALSE]
        ELSE [mi |-> l.mi, ok |-> TRUE,
              pp |-> IF At(s, l.pp) = "e" THEN l.pp + 1 ELSE l.pp,
              hasargs |-> want, args |-> l.args,
              varargs |-> want /\ At(s, l.pp) = "e"] :
        l \in {stab_demangle_args_loop(mi, s, orig, want, <<>>)} })

\* the value parameter of a template whose type begins at old_p: what the
\* letters of the type say it is.  abort() is the kind "abort"; at the end
\* of the string no flag is set
RECURSIVE stab_demangle_template_kind(_, _)
stab_demangle_template_kind(s, old_p) ==
    LET c == At(s, old_p)
    IN  CASE c = NUL -> "none"
          [] c \in {"P", "p", "R"} -> "pointerp"
          [] c \in {"C", "S", "U", "V", "F", "M", "O"} ->
                 stab_demangle_template_kind(s, old_p + 1)
          [] c = "Q" -> "integralp"
          [] c \in {"T", "v"} -> "abort"
          [] c \in {"x", "l", "i", "s", "w"} -> "integralp"
          [] c = "b" -> "boolp"
          [] c = "c" -> "charp"
          [] c \in {"r", "d", "f"} -> "realp"
          [] OTHER -> "integralp"

\* stab_demangle_template_kind that takes a remembered type and void for
\* integral types
RECURSIVE stab_demangle_template_kind_noabort(_, _)
stab_demangle_template_kind_noabort(s, old_p) ==
    LET c == At(s, old_p)
    IN  CASE c = NUL -> "none"
          [] c \in {"P", "p", "R"} -> "pointerp"
          [] c \in {"C", "S", "U", "V", "F", "M", "O"} ->
                 stab_demangle_template_kind_noabort(s, old_p + 1)
          [] c = "b" -> "boolp"
          [] c = "c" -> "charp"
          [] c \in {"r", "d", "f"} -> "realp"
          [] OTHER -> "integralp"

\* while (ISDIGIT (**pp)) ++*pp
RECURSIVE stab_demangle_skip_digits(_, _)
stab_demangle_skip_digits(s, pp) ==
    IF ISDIGIT(At(s, pp)) THEN stab_demangle_skip_digits(s, pp + 1) ELSE pp

\* the value of a value parameter of the kind given is passed over; the
\* result is [ok, pp].  The length of a pointer value is not checked against
\* the end of the string: no name of the model has one that long
stab_demangle_template_value(s, pp, kind) ==
    LET m1 == IF At(s, pp) = "m" THEN pp + 1 ELSE pp
    IN  CASE kind = "integralp" ->
                 [ok |-> TRUE, pp |-> stab_demangle_skip_digits(s, m1)]
          [] kind = "charp" ->
                 Result({ [ok |-> c.n # 0, pp |-> c.pp] :
                          c \in {stab_demangle_count(s, m1)} })
          [] kind = "boolp" ->
                 Result({ [ok |-> c.n \in {0, 1}, pp |-> c.pp] :
                          c \in {stab_demangle_count(s, pp)} })
          [] kind = "realp" ->
                 LET d1 == stab_demangle_skip_digits(s, m1)
                     d2 == IF At(s, d1) = "." THEN stab_demangle_skip_digits(s, d1 + 1)
                           ELSE d1
                     d3 == IF At(s, d2) = "e" THEN stab_demangle_skip_digits(s, d2 + 1)
                           ELSE d2
                 IN  [ok |-> TRUE, pp |-> d3]
          [] kind = "pointerp" ->
                 Result({ [ok |-> c.n # 0, pp |-> c.pp + c.n] :
                          c \in {stab_demangle_count(s, pp)} })
          [] OTHER -> [ok |-> TRUE, pp |-> pp]

\* the r parameters of a template from pp; orig is where the template begins.
\* The result is [mi, ok, pp]; mi.aborted says that abort() was called
RECURSIVE stab_demangle_template_params(_, _, _, _, _)
stab_demangle_template_params(mi, s, orig, pp, r) ==
    IF r = 0 THEN [mi |-> mi, ok |-> TRUE, pp |-> pp]
    ELSE Result({
         IF ~ty.ok THEN [mi |-> ty.mi, ok |-> FALSE, pp |-> ty.pp]
         ELSE IF At(s, pp) = "Z"
         THEN stab_demangle_template_params(ty.mi, s, orig, ty.pp, r - 1)
         ELSE Result({
              IF kind = "abort"
              THEN [mi |-> [ty.mi EXCEPT !.aborted = TRUE], ok |-> FALSE,
                    pp |-> ty.pp]
              ELSE Result({
                   IF ~v.ok
                   THEN [mi |-> stab_bad_demangle(ty.mi), ok |-> FALSE, pp |-> v.pp]
                   ELSE stab_demangle_template_params(ty.mi, s, orig, v.pp, r - 1) :
                   v \in {stab_demangle_template_value(s, ty.pp, kind)} }) :
              kind \in {stab_demangle_template_kind(s, pp)} }) :
         ty \in {stab_demangle_type(mi, s, IF At(s, pp) = "Z" THEN pp + 1 ELSE pp,
                                    FALSE, Unassigned)} })

\* the call with pname NULL; the result is [mi, ok, pp, start]
stab_demangle_template(mi, s, orig) ==
    Result({
        IF c.n = 0 \/ Len(s) + 1 - c.pp < c.n
        THEN [mi |-> stab_bad_demangle(mi), ok |-> FALSE, pp |-> c.pp, start |-> orig]
        ELSE Result({
             IF ~r.ok
             THEN [mi |-> stab_bad_demangle(mi), ok |-> FALSE, pp |-> r.pp,
                   start |-> orig]
             ELSE Result({ [mi |-> p.mi, ok |-> p.ok, pp |-> p.pp, start |-> orig] :
                           p \in {stab_demangle_template_params(mi, s, orig, r.pp,
                                                                r.i)} }) :
             r \in {stab_demangle_get_count(s, c.pp + c.n)} }) :
        c \in {stab_demangle_count(s, orig + 1)} })

\* minfo with what stab_demangle_args left in minfo->args and minfo->varargs
stab_demangle_set_args(a) ==
    [a.mi EXCEPT !.hasargs = a.hasargs, !.args = a.args, !.varargs = a.varargs]

\* the loop of stab_demangle_signature; hold = 0 is the NULL pointer.  The
\* result is [mi, ok, pp]
RECURSIVE stab_demangle_signature_loop(_, _, _, _, _, _, _)
stab_demangle_signature_loop(mi, s, orig, pp, expect_func, func_done, hold) ==
    LET c == At(s, pp)
        No(mi1, at) == [mi |-> mi1, ok |-> FALSE, pp |-> at]
        held == IF hold = 0 THEN pp ELSE hold
        outside == c = "Q"
        modifier == c \in {"S", "C"}
    IN  CASE c = NUL /\ func_done -> [mi |-> mi, ok |-> TRUE, pp |-> pp]
          [] outside ->
                 No([mi EXCEPT !.m = Report(@, "mangling outside the model")], pp)
          [] modifier /\ ~expect_func ->
                 stab_demangle_signature_loop(mi, s, orig, pp + 1, FALSE,
                     func_done, held)
          [] c = "_" -> No(stab_bad_demangle(mi), pp)
          [] OTHER ->
                 \* the arguments are read at the end of a name without a
                 \* function, in the case 'F', in the default case, and
                 \* after a modifier or a class name when a function is
                 \* expected.  x is <<minfo, the place of the arguments,
                 \* expect_func and hold after them, whether they are read
                 \* a second time>>
                 Result({
                     IF ~cl.ok THEN No(cl.mi, cl.pp)
                     ELSE Result({ Result({
                          IF ~a.ok THEN No(a.mi, a.pp)
                          ELSE IF c = NUL
                          THEN [mi |-> stab_demangle_set_args(a), ok |-> TRUE,
                                pp |-> a.pp]
                          ELSE Result({
                               IF ~b.ok THEN No(b.mi, b.pp)
                               ELSE stab_demangle_signature_loop(
                                        stab_demangle_set_args(b), s, orig, b.pp,
                                        x[3], TRUE, x[4]) :
                               b \in {IF x[5]
                                      THEN stab_demangle_args(
                                               stab_demangle_set_args(a), s, a.pp,
                                               TRUE)
                                      ELSE a} }) :
                          a \in {stab_demangle_args(x[1], s, x[2], TRUE)} }) :
                          x \in {CASE c = NUL -> <<mi, pp, FALSE, 0, FALSE>>
                                   [] modifier -> <<mi, pp + 1, TRUE, held, FALSE>>
                                   [] ISDIGIT(c) \/ c = "t" ->
                                          <<stab_demangle_remember_type(cl.mi, held, cl.pp - held),
                                            cl.pp, TRUE, 0, FALSE>>
                                   [] c = "F" ->
                                          <<mi, pp + 1, expect_func, 0, expect_func>>
                                   [] OTHER ->
                                          <<mi, pp, expect_func, hold,
                                            expect_func>>} }) :
                     cl \in {IF ISDIGIT(c) THEN stab_demangle_class(mi, s, pp)
                             ELSE IF c = "t" THEN stab_demangle_template(mi, s, pp)
                             ELSE [mi |-> mi, ok |-> TRUE, pp |-> pp,
                                   start |-> pp]} })

stab_demangle_signature(mi, s, orig) ==
    stab_demangle_signature_loop(mi, s, orig, orig, FALSE, FALSE, 0)

\* the first "__" at or after from, 0 if none
RECURSIVE stab_demangle_pair(_, _)
stab_demangle_pair(s, from) ==
    IF from >= Len(s) THEN 0
    ELSE IF s[from] = "_" /\ s[from + 1] = "_" THEN from
    ELSE stab_demangle_pair(s, from + 1)

\* the first character at or after from that is no '_'
RECURSIVE stab_demangle_span(_, _)
stab_demangle_span(s, from) ==
    IF At(s, from) = "_" THEN stab_demangle_span(s, from + 1) ELSE from

\* the name is s from name to scan; the result is [mi, ok, pp]
stab_demangle_function_name(mi, s, name, scan) ==
    IF (scan + 2 - name >= 5 /\ startswith(s, name, <<"t", "y", "p", "e">>)
           /\ At(s, name + 4) \in {"$", "."})
       \/ startswith(s, name, <<"_", "_", "o", "p">>)
    THEN Result({ [mi |-> r.mi, ok |-> r.ok, pp |-> scan + 2] :
                  r \in {stab_demangle_type(mi, s,
                             IF startswith(s, name, <<"_", "_", "o", "p">>)
                                /\ ~(scan + 2 - name >= 5
                                     /\ startswith(s, name, <<"t", "y", "p", "e">>)
                                     /\ At(s, name + 4) \in {"$", "."})
                             THEN name + 4 ELSE name + 5,
                             FALSE, Unassigned)} })
    ELSE [mi |-> mi, ok |-> TRUE, pp |-> scan + 2]

\* the result is [mi, ok, pp]
stab_demangle_prefix(mi, s, pp, physname_len) ==
    LET pair == stab_demangle_pair(s, pp)
        run  == stab_demangle_span(s, pair)
        scan == IF physname_len # 0 THEN pp + physname_len
                ELSE IF run - pair > 2 THEN run - 2 ELSE pair
        next == stab_demangle_pair(s, stab_demangle_span(s, scan))
        No   == [mi |-> stab_bad_demangle(mi), ok |-> FALSE, pp |-> pp]
    IN  IF physname_len = 0 /\ pair = 0 THEN No
        ELSE IF scan = pp /\ (ISDIGIT(At(s, scan + 2))
                                 \/ At(s, scan + 2) \in {"Q", "t"})
        THEN [mi |-> mi, ok |-> TRUE, pp |-> scan + 2]
        ELSE IF scan = pp /\ (next = 0 \/ At(s, next + 2) = NUL) THEN No
        ELSE IF scan # pp /\ At(s, scan + 2) = NUL THEN No
        ELSE stab_demangle_function_name(mi, s, pp,
                 IF scan = pp THEN next ELSE scan)

\* the result is [m, hasargs, args, varargs]; hasargs = FALSE is the NULL
\* that reports a failure.  The names of the V3 ABI ("_Z") are not part of
\* this model
stab_demangle_argtypes(m, physname, physname_len) ==
    LET Null(mi) == [m |-> mi.m, hasargs |-> FALSE, args |-> <<>>,
                     varargs |-> FALSE, typestrings |-> mi.typestrings,
                     refs |-> mi.refs, aborted |-> mi.aborted]
        Out(mi) == [m |-> IF mi.hasargs THEN mi.m
                          ELSE Report(mi.m, "no argument types in mangled string"),
                    hasargs |-> mi.hasargs, args |-> mi.args,
                    varargs |-> mi.varargs, typestrings |-> mi.typestrings,
                    refs |-> mi.refs, aborted |-> mi.aborted]
        minfo == [m |-> m, typestrings |-> <<>>, hasargs |-> FALSE,
                  args |-> <<>>, varargs |-> FALSE, refs |-> <<>>,
                  aborted |-> FALSE]
    IN  IF startswith(physname, 1, <<"_", "Z">>)
        THEN Null([minfo EXCEPT !.m = Report(m, "mangling outside the model")])
        ELSE Result({
             IF ~p.ok THEN Null(p.mi)
             ELSE IF At(physname, p.pp) = NUL THEN Out(p.mi)
             ELSE Result({ IF ~g.ok THEN Null(g.mi) ELSE Out(g.mi) :
                           g \in {stab_demangle_signature(p.mi, physname, p.pp)} }) :
             p \in {stab_demangle_prefix(minfo, physname, 1, physname_len)} })

\* sprintf "%d" of an unsigned value
RECURSIVE sprintf_d(_)
sprintf_d(n) ==
    IF n < 10 THEN <<Digits[n + 1]>>
    ELSE sprintf_d(n \div 10) \o <<Digits[(n % 10) + 1]>>

\* the type behind t: what an indirect type reads from its slot, and the
\* type a name or a tag was given to
RECURSIVE debug_get_real_type(_, _, _)
debug_get_real_type(m, t, fuel) ==
    IF t = DEBUG_TYPE_NULL \/ fuel = 0 THEN DEBUG_TYPE_NULL
    ELSE CASE m.dbg.types[t].kind = "indirect" ->
                  debug_get_real_type(m, SlotGet(m, m.dbg.types[t].slot), fuel - 1)
           [] m.dbg.types[t].kind \in {"named", "tagged"} ->
                  debug_get_real_type(m, m.dbg.types[t].target, fuel - 1)
           [] OTHER -> t

\* debug_get_type_kind (type) == DEBUG_KIND_METHOD
\* && debug_get_parameter_types (type) == NULL
debug_is_stub_method(m, t) ==
    LET r == debug_get_real_type(m, t, Len(m.dbg.types) + 1)
    IN  /\ r # DEBUG_TYPE_NULL
        /\ m.dbg.types[r].kind = "method"
        /\ ~m.dbg.types[r].parts[2]

debug_get_return_type(m, t) ==
    LET r == debug_get_real_type(m, t, Len(m.dbg.types) + 1)
    IN  IF r # DEBUG_TYPE_NULL /\ m.dbg.types[r].kind \in {"method", "function"}
        THEN m.dbg.types[r].target
        ELSE DEBUG_TYPE_NULL

\* the result is [m, t, physname]; physname0 is what *pphysname holds at
\* the call, tagname = NoName is the NULL pointer
parse_stab_argtypes(m, class_type, fieldname, tagname, return_type, argtypes, constp, volatilep, physname0) ==
    LET is_full_physname_constructor ==
            \/ /\ startswith(argtypes, 1, <<"_", "_">>)
               /\ (ISDIGIT(At(argtypes, 3)) \/ At(argtypes, 3) \in {"Q", "t"})
            \/ startswith(argtypes, 1, <<"_", "_", "c", "t">>)
        is_constructor == \/ is_full_physname_constructor
                          \/ (tagname # NoName /\ fieldname = tagname)
        is_destructor ==
            \/ /\ At(argtypes, 1) = "_" /\ At(argtypes, 2) \in {"$", "."}
               /\ At(argtypes, 3) = "_"
            \/ startswith(argtypes, 1, <<"_", "_", "d", "t">>)
        is_v3 == startswith(argtypes, 1, <<"_", "Z">>)
        built == ~(is_destructor \/ is_full_physname_constructor \/ is_v3)
        template == strchr(tagname, 1, "<") # 0
        buf == <<"_", "_">> \o (IF constp THEN <<"C">> ELSE <<>>)
                   \o (IF volatilep THEN <<"V">> ELSE <<>>)
                   \o (IF Len(tagname) = 0 \/ template THEN <<>>
                       ELSE sprintf_d(Len(tagname)))
        opname == startswith(fieldname, 1, <<"o", "p">>)
                     /\ At(fieldname, 3) \in {"$", "."}
        physname == IF ~built THEN physname0
                    ELSE (IF is_constructor THEN <<>> ELSE fieldname) \o buf
                            \o (IF template THEN <<>> ELSE tagname) \o argtypes
        physname_len == IF built /\ ~is_constructor THEN Len(fieldname) ELSE 0
    IN  IF built /\ opname
        THEN [m |-> m, t |-> DEBUG_TYPE_NULL, physname |-> physname0]
        ELSE IF argtypes = <<>> \/ is_destructor
        THEN Result({ [m |-> r.m, t |-> r.t, physname |-> physname] :
                      r \in {debug_make_method_type(m, return_type, class_type,
                                                    TRUE, <<>>, FALSE)} })
        ELSE Result({
             IF ~a.hasargs
             THEN [m |-> a.m, t |-> DEBUG_TYPE_NULL, physname |-> physname]
             ELSE Result({ [m |-> r.m, t |-> r.t, physname |-> physname] :
                           r \in {debug_make_method_type(a.m, return_type,
                                      class_type, TRUE, a.args, a.varargs)} }) :
             a \in {stab_demangle_argtypes(m, physname, physname_len)} })

(* Structs, unions and classes.  A parser of a part of the definition      *)
(* returns [m, ok, pp] and what it read.                                   *)
(***************************************************************************)
\* the loop of parse_stab_baseclasses with c classes left to read
RECURSIVE parse_stab_baseclasses_loop(_, _, _, _, _, _)


parse_stab_baseclasses_loop(m, s, orig, pp, c, classes) ==
    LET No(m1, at) == [m |-> m1, ok |-> FALSE, pp |-> at, based |-> TRUE,
                       classes |-> classes]
        v  == At(s, pp)
        vi == At(s, pp + 1)
        m1 == IF v \in {"0", "1"} THEN m
              ELSE warn_stab(m, "unknown virtual character for baseclass")
        m2 == IF vi \in {"0", "1", "2"} THEN m1
              ELSE warn_stab(m1, "unknown visibility character for baseclass")
    IN  IF c = 0
        THEN [m |-> m, ok |-> TRUE, pp |-> pp, based |-> TRUE, classes |-> classes]
        ELSE IF v = NUL THEN No(bad_stab(m), pp)
        ELSE IF vi = NUL THEN No(bad_stab(m1), pp + 1)
        ELSE Result({
             IF At(s, bitpos.pp) # "," THEN No(bad_stab(bitpos.m), bitpos.pp)
             ELSE Result({
                  IF type.t = DEBUG_TYPE_NULL THEN No(type.m, type.pp)
                  ELSE IF At(s, type.pp) # ";" THEN No(type.m, type.pp)
                  ELSE parse_stab_baseclasses_loop(type.m, s, orig, type.pp + 1,
                           c - 1,
                           Append(classes,
                                  [type |-> type.t, bitpos |-> bitpos.v,
                                   is_virtual |-> v = "1",
                                   visibility |-> CASE vi = "0" -> "private"
                                                    [] vi = "1" -> "protected"
                                                    [] OTHER -> "public"])) :
                  type \in {parse_stab_type(bitpos.m, s, NoName, bitpos.pp + 1,
                                            FALSE)} }) :
             bitpos \in {parse_number_warn(m2, s, pp + 2)} })

\* c is an unsigned int; a count of 65536 or more is read as 65536, which no
\* string of the model is long enough to satisfy
parse_stab_baseclasses(m, s, orig) ==
    IF orig >= Len(s) + 1
    THEN [m |-> m, ok |-> FALSE, pp |-> orig, based |-> FALSE, classes |-> <<>>]
    ELSE IF At(s, orig) # "!"
    THEN [m |-> m, ok |-> TRUE, pp |-> orig, based |-> FALSE, classes |-> <<>>]
    ELSE Result({
         IF At(s, c.pp) # ","
         THEN [m |-> bad_stab(c.m), ok |-> FALSE, pp |-> c.pp, based |-> FALSE,
               classes |-> <<>>]
         ELSE parse_stab_baseclasses_loop(c.m, s, orig, c.pp + 1,
                  IF c.v[2] = 0 THEN c.v[1] ELSE Limb, <<>>) :
         c \in {parse_number_warn(m, s, orig + 1)} })

\* the result is [m, ok, pp]; the field is left DEBUG_FIELD_NULL
parse_stab_cpp_abbrev(m, s, orig) ==
    IF orig >= Len(s) + 1 THEN [m |-> m, ok |-> FALSE, pp |-> orig]
    ELSE IF At(s, orig) # "v" THEN [m |-> bad_stab(m), ok |-> FALSE, pp |-> orig]
    ELSE IF At(s, orig + 1) = NUL
    THEN [m |-> bad_stab(m), ok |-> FALSE, pp |-> orig + 1]
    ELSE [m |-> m, ok |-> TRUE, pp |-> orig + 1]

\* parse_stab_one_struct_field that leaves a field of no extent as declared
parse_stab_one_struct_field_asdeclared(m, s, orig, p) ==
    LET No(m1, at) == [m |-> m1, ok |-> FALSE, pp |-> at,
                       field |-> DEBUG_FIELD_NULL, statics |-> FALSE]
        marked == At(s, p + 1) = "/"
        c      == At(s, p + 2)
        declared == IF ~marked THEN "public"
                    ELSE CASE c = "0" -> "private"
                           [] c = "1" -> "protected"
                           [] OTHER -> "public"
    IN  Result({
        IF type.t = DEBUG_TYPE_NULL \/ At(s, type.pp) # "," THEN No(type.m, type.pp)
        ELSE Result({
             Result({
                 IF At(s, bitpos.pp) # "," \/ At(s, bitsize.pp) # ";"
                 THEN No(bitsize.m, bitsize.pp)
                 ELSE [m |-> bitsize.m, ok |-> TRUE, pp |-> bitsize.pp + 1,
                       field |-> debug_make_field(Sub(s, orig, p), type.t,
                                     bitpos.v, bitsize.v, declared),
                       statics |-> FALSE] :
                 bitsize \in {parse_number_warn(bitpos.m, s, bitpos.pp + 1)} }) :
             bitpos \in {parse_number_warn(type.m, s, type.pp + 1)} }) :
        type \in {parse_stab_type(m, s, NoName, IF marked THEN p + 3 ELSE p + 1,
                                  FALSE)} })

\* the field whose name ends at the ':' at p; the result is
\* [m, ok, pp, field, statics]
parse_stab_one_struct_field(m, s, orig, p) ==
    LET No(m1, at) == [m |-> m1, ok |-> FALSE, pp |-> at,
                       field |-> DEBUG_FIELD_NULL, statics |-> FALSE]
        name   == Sub(s, orig, p)
        marked == At(s, p + 1) = "/"
        c      == At(s, p + 2)
        declared == IF ~marked THEN "public"
                    ELSE CASE c = "0" -> "private"
                           [] c = "1" -> "protected"
                           [] OTHER -> "public"
        m1 == IF marked /\ c \notin {"0", "1", "2"}
              THEN warn_stab(m, "unknown visibility character for field")
              ELSE m
    IN  IF orig >= Len(s) + 1 THEN No(m, orig)
        ELSE IF marked /\ c = NUL THEN No(bad_stab(m), p + 2)
        ELSE Result({
             IF type.t = DEBUG_TYPE_NULL THEN No(type.m, type.pp)
             ELSE IF At(s, type.pp) = ":"
             THEN LET semi == strchr(s, type.pp + 1, ";")
                  IN  IF semi = 0 THEN No(bad_stab(type.m), type.pp + 1)
                      ELSE [m |-> type.m, ok |-> TRUE, pp |-> semi + 1,
                            field |-> debug_make_static_member(name, type.t,
                                          Sub(s, type.pp + 1, semi), declared),
                            statics |-> TRUE]
             ELSE IF At(s, type.pp) # "," THEN No(bad_stab(type.m), type.pp)
             ELSE Result({
                  IF At(s, bitpos.pp) # "," THEN No(bad_stab(bitpos.m), bitpos.pp)
                  ELSE Result({
                       IF At(s, bitsize.pp) # ";"
                       THEN No(bad_stab(bitsize.m), bitsize.pp)
                       ELSE [m |-> bitsize.m, ok |-> TRUE, pp |-> bitsize.pp + 1,
                             field |-> debug_make_field(name, type.t, bitpos.v,
                                           bitsize.v,
                                           IF bitpos.v = VmaZero
                                              /\ bitsize.v = VmaZero
                                           THEN "ignore" ELSE declared),
                             statics |-> FALSE] :
                       bitsize \in {parse_number_warn(bitpos.m, s,
                                                      bitpos.pp + 1)} }) :
                  bitpos \in {parse_number_warn(type.m, s, type.pp + 1)} }) :
             type \in {parse_stab_type(m1, s, NoName,
                                       IF marked THEN p + 3 ELSE p + 1, FALSE)} })

\* the loop of parse_stab_struct_fields; the array is kept without the
\* DEBUG_FIELD_NULL that ends it
RECURSIVE parse_stab_struct_fields_loop(_, _, _, _, _, _)
parse_stab_struct_fields_loop(m, s, orig, pp, fields, statics) ==
    LET No(m1, at) == [m |-> m1, ok |-> FALSE, pp |-> at, fields |-> <<>>,
                       statics |-> statics]
        Yes == [m |-> m, ok |-> TRUE, pp |-> pp, fields |-> fields,
                statics |-> statics]
    IN  IF At(s, pp) = ";" THEN Yes
        ELSE IF At(s, pp) \in {"$", "."} /\ At(s, pp + 1) # "_"
        THEN Result({
             IF ~a.ok THEN No(a.m, a.pp)
             ELSE parse_stab_struct_fields_loop(a.m, s, orig, a.pp,
                      Append(fields, DEBUG_FIELD_NULL), statics) :
             a \in {parse_stab_cpp_abbrev(m, s, pp + 1)} })
        ELSE Result({
             IF p = 0 THEN No(bad_stab(m), pp)
             ELSE IF At(s, p + 1) = ":" THEN Yes
             ELSE Result({
                  IF ~f.ok THEN No(f.m, f.pp)
                  ELSE parse_stab_struct_fields_loop(f.m, s, orig, f.pp,
                           Append(fields, f.field), statics \/ f.statics) :
                  f \in {parse_stab_one_struct_field(m, s, pp, p)} }) :
             p \in {strchr(s, pp, ":")} })

parse_stab_struct_fields(m, s, orig) ==
    IF orig >= Len(s) + 1
    THEN [m |-> m, ok |-> FALSE, pp |-> orig, fields |-> <<>>, statics |-> FALSE]
    ELSE parse_stab_struct_fields_loop(m, s, orig, orig, <<>>, FALSE)

\* the switch on the kind of a method: '*' virtual, '?' static, '.' normal.
\* The result is [m, ok, pp, staticp, voffset, context, look_ahead_type,
\* stub]; stub says that the static method has a mangled name
parse_stab_members_kind(m, s, orig, pp, name, argtypes) ==
    LET Plain(m1, at, staticp) ==
            [m |-> m1, ok |-> TRUE, pp |-> at, staticp |-> staticp,
             voffset |-> VmaZero, context |-> DEBUG_TYPE_NULL,
             look_ahead_type |-> DEBUG_TYPE_NULL,
             stub |-> staticp /\ ~startswith(argtypes, 1, name)]
        Virtual(m1, at, ok, voffset, context, ahead) ==
            [m |-> m1, ok |-> ok, pp |-> at, staticp |-> FALSE,
             voffset |-> <<voffset[1], voffset[2] % (Limb \div 2), 0, 0>>,
             context |-> context, look_ahead_type |-> ahead, stub |-> FALSE]
    IN  CASE At(s, pp) = "*" ->
                 Result({
                     IF At(s, n.pp) # ";"
                     THEN Virtual(bad_stab(n.m), n.pp, FALSE, n.v, 0, 0)
                     ELSE IF At(s, n.pp + 1) \in {";", NUL}
                     THEN Virtual(n.m, n.pp + 1, TRUE, n.v, 0, 0)
                     ELSE Result({
                          IF At(s, t.pp) = ":"
                          THEN Virtual(t.m, t.pp, TRUE, n.v, 0, t.t)
                          ELSE IF At(s, t.pp) # ";"
                          THEN Virtual(bad_stab(t.m), t.pp, FALSE, n.v, 0, 0)
                          ELSE Virtual(t.m, t.pp + 1, TRUE, n.v, t.t, 0) :
                          t \in {parse_stab_type(n.m, s, NoName, n.pp + 1,
                                                 FALSE)} }) :
                     n \in {parse_number_warn(m, s, pp + 1)} })
          [] At(s, pp) = "?" -> Plain(m, pp + 1, TRUE)
          [] At(s, pp) = "." -> Plain(m, pp + 1, FALSE)
          [] OTHER -> Plain(warn_stab(m, "member function type missing"), pp,
                            FALSE)

\* one variant of a method: from the type (or the type read ahead) to the
\* end of the variant.  The result is [m, ok, pp, variant, look_ahead_type]
parse_stab_members_variant(m, s, orig, pp, name, tagname, typenums, look_ahead_type) ==
    LET No(m1, at) == [m |-> m1, ok |-> FALSE, pp |-> at, variant |-> <<>>,
                       look_ahead_type |-> DEBUG_TYPE_NULL]
    IN  Result({
        IF type.t = DEBUG_TYPE_NULL THEN No(type.m, type.pp)
        ELSE IF At(s, type.pp) # ":" THEN No(bad_stab(type.m), type.pp)
        ELSE Result({
             IF semi = 0 THEN No(bad_stab(type.m), type.pp + 1)
             ELSE IF At(s, semi + 1) = NUL THEN No(bad_stab(type.m), semi + 1)
             ELSE Result({
                  IF ~v.ok THEN No(v.m, v.pp)
                  ELSE Result({
                       IF ~g.ok THEN No(g.m, v.pp)
                       ELSE [m |-> g.m, ok |-> TRUE, pp |-> v.pp,
                             variant |->
                                 [physname |-> g.physname, type |-> g.t,
                                  visibility |->
                                      CASE At(s, semi + 1) = "0" -> "private"
                                        [] At(s, semi + 1) = "1" -> "protected"
                                        [] OTHER -> "public",
                                  constp |-> At(s, semi + 2) \in {"B", "D"},
                                  volatilep |-> At(s, semi + 2) \in {"C", "D"},
                                  voffset |-> v.voffset, context |-> v.context,
                                  staticp |-> v.staticp],
                             look_ahead_type |-> v.look_ahead_type] :
                       g \in {IF ~(debug_is_stub_method(v.m, type.t) \/ v.stub)
                              THEN [m |-> v.m, ok |-> TRUE, t |-> type.t,
                                    physname |-> Sub(s, type.pp + 1, semi)]
                              ELSE Result({
                                   IF c.t = DEBUG_TYPE_NULL
                                   THEN [m |-> c.m, ok |-> FALSE, t |-> 0,
                                         physname |-> <<>>]
                                   ELSE IF debug_get_return_type(c.m, type.t)
                                           = DEBUG_TYPE_NULL
                                   THEN [m |-> bad_stab(c.m), ok |-> FALSE,
                                         t |-> 0, physname |-> <<>>]
                                   ELSE Result({
                                        [m |-> a.m, ok |-> a.t # DEBUG_TYPE_NULL,
                                         t |-> a.t, physname |-> a.physname] :
                                        a \in {parse_stab_argtypes(c.m, c.t,
                                                   name, tagname,
                                                   debug_get_return_type(c.m,
                                                       type.t),
                                                   Sub(s, type.pp + 1, semi),
                                                   At(s, semi + 2) \in {"B", "D"},
                                                   At(s, semi + 2) \in {"C", "D"},
                                                   Sub(s, type.pp + 1, semi))} }) :
                                   c \in {stab_find_type(v.m, typenums)} })} }) :
                  v \in {parse_stab_members_kind(
                             IF At(s, semi + 2) \in {"A", "B", "C", "D", "*", "?", "."}
                             THEN type.m
                             ELSE warn_stab(type.m,
                                            "const/volatile indicator missing"),
                             s, orig,
                             IF At(s, semi + 2) \in {"A", "B", "C", "D"}
                             THEN semi + 3 ELSE semi + 2,
                             name, Sub(s, type.pp + 1, semi))} }) :
             semi \in {strchr(s, type.pp + 1, ";")} }) :
        type \in {IF look_ahead_type # DEBUG_TYPE_NULL
                  THEN [m |-> m, t |-> look_ahead_type, pp |-> pp]
                  ELSE parse_stab_type(m, s, NoName, pp, FALSE)} })

\* the variants of one method, "do ... while (**pp != ';' && **pp != '\0')".
\* The result is [m, ok, pp, variants]
RECURSIVE parse_stab_members_variants(_, _, _, _, _, _, _, _, _)
parse_stab_members_variants(m, s, orig, pp, name, tagname, typenums, look_ahead_type, variants) ==
    Result({
        IF ~v.ok THEN [m |-> v.m, ok |-> FALSE, pp |-> v.pp, variants |-> variants]
        ELSE IF At(s, v.pp) \in {";", NUL}
        THEN [m |-> v.m, ok |-> TRUE, pp |-> v.pp,
              variants |-> Append(variants, v.variant)]
        ELSE parse_stab_members_variants(v.m, s, orig, v.pp, name, tagname,
                 typenums, v.look_ahead_type, Append(variants, v.variant)) :
        v \in {parse_stab_members_variant(m, s, orig, pp, name, tagname, typenums,
                                          look_ahead_type)} })

\* the loop over the methods; the result is [m, ok, pp, methods]
RECURSIVE parse_stab_members_loop(_, _, _, _, _, _, _)
parse_stab_members_loop(m, s, orig, pp, tagname, typenums, methods) ==
    LET p    == strchr(s, pp, ":")
        op   == startswith(s, pp, <<"o", "p", "$">>)
        dot  == strchr(s, p + 2, ".")
        Yes  == [m |-> m, ok |-> TRUE, pp |-> pp, methods |-> methods]
    IN  IF At(s, pp) = ";" \/ p = 0 \/ At(s, p + 1) # ":" THEN Yes
        ELSE IF op /\ dot = 0
        THEN [m |-> bad_stab(m), ok |-> FALSE, pp |-> p + 2, methods |-> <<>>]
        ELSE Result({
             IF ~v.ok THEN [m |-> v.m, ok |-> FALSE, pp |-> v.pp, methods |-> <<>>]
             ELSE parse_stab_members_loop(v.m, s, orig,
                      IF At(s, v.pp) # NUL THEN v.pp + 1 ELSE v.pp,
                      tagname, typenums,
                      Append(methods,
                             [name |-> IF op THEN Sub(s, p + 2, dot)
                                       ELSE Sub(s, pp, p),
                              variants |-> v.variants])) :
             v \in {parse_stab_members_variants(m, s, orig,
                        IF op THEN dot + 1 ELSE p + 2,
                        IF op THEN Sub(s, p + 2, dot) ELSE Sub(s, pp, p),
                        tagname, typenums, DEBUG_TYPE_NULL, <<>>)} })

\* methods = <<>> is the NULL pointer: no method was read
parse_stab_members(m, s, orig, tagname, typenums) ==
    IF orig >= Len(s) + 1
    THEN [m |-> m, ok |-> FALSE, pp |-> orig, methods |-> <<>>]
    ELSE parse_stab_members_loop(m, s, orig, orig, tagname, typenums, <<>>)

\* the result is [m, ok, pp, vptrbase, ownvptr]
parse_stab_tilde_field(m, s, orig, typenums) ==
    LET Out(m1, ok, at, vptrbase, ownvptr) ==
            [m |-> m1, ok |-> ok, pp |-> at, vptrbase |-> vptrbase,
             ownvptr |-> ownvptr]
        p1 == IF At(s, orig) = ";" THEN orig + 1 ELSE orig
        p2 == IF At(s, p1 + 1) \in {"=", "+", "-"} THEN p1 + 2 ELSE p1 + 1
    IN  IF orig >= Len(s) + 1 THEN Out(m, FALSE, orig, DEBUG_TYPE_NULL, FALSE)
        ELSE IF At(s, p1) # "~" THEN Out(m, TRUE, p1, DEBUG_TYPE_NULL, FALSE)
        ELSE IF At(s, p2) # "%" THEN Out(m, TRUE, p2, DEBUG_TYPE_NULL, FALSE)
        ELSE Result({
             IF ~vn.ok THEN Out(vn.m, FALSE, vn.pp, DEBUG_TYPE_NULL, FALSE)
             ELSE IF vn.typenums = typenums
             THEN Out(vn.m, TRUE, vn.pp, DEBUG_TYPE_NULL, TRUE)
             ELSE Result({
                  IF strchr(s, vt.pp, ";") = 0
                  THEN Out(bad_stab(vt.m), FALSE, vt.pp, DEBUG_TYPE_NULL, FALSE)
                  ELSE Out(vt.m, TRUE, strchr(s, vt.pp, ";") + 1, vt.t, FALSE) :
                  vt \in {parse_stab_type(vn.m, s, NoName, p2 + 1, FALSE)} }) :
             vn \in {parse_stab_type_number(m, s, p2 + 1)} })

\* the result is [m, t, pp]
parse_stab_struct_type(m, s, tagname, pp, structp, typenums) ==
    Result({
        Result({
            IF ~b.ok THEN NullType(b.m, b.pp)
            ELSE Result({
                 IF ~f.ok THEN NullType(f.m, f.pp)
                 ELSE Result({
                      IF ~me.ok THEN NullType(me.m, me.pp)
                      ELSE Result({
                           IF ~ti.ok THEN NullType(ti.m, ti.pp)
                           ELSE Result({
                                [m |-> r.m, t |-> r.t, pp |-> ti.pp] :
                                r \in {IF ~f.statics /\ ~b.based
                                          /\ me.methods = <<>>
                                          /\ ti.vptrbase = DEBUG_TYPE_NULL
                                          /\ ~ti.ownvptr
                                       THEN debug_make_struct_type(ti.m, structp,
                                                size.v, f.fields)
                                       ELSE debug_make_object_type(ti.m, structp,
                                                size.v, f.fields, b.based,
                                                b.classes, me.methods,
                                                ti.vptrbase, ti.ownvptr)} }) :
                           ti \in {parse_stab_tilde_field(me.m, s, me.pp,
                                                          typenums)} }) :
                      me \in {parse_stab_members(f.m, s, f.pp, tagname,
                                                 typenums)} }) :
                 f \in {parse_stab_struct_fields(b.m, s, b.pp)} }) :
            b \in {parse_stab_baseclasses(size.m, s, size.pp)} }) :
        size \in {parse_number_warn(m, s, pp)} })

(***************************************************************************)
(* Sun builtin types, enums, arrays, methods and offsets.                  *)
(***************************************************************************)
\* the size of the model's builtins fits an int
parse_stab_sun_builtin_type(m, s, orig) ==
    LET p1 == IF At(s, orig + 1) \in {"c", "b", "v"} THEN orig + 2 ELSE orig + 1
    IN  IF orig >= Len(s) + 1 THEN NullType(m, orig)
        ELSE IF At(s, orig) \notin {"s", "u"} THEN NullType(bad_stab(m), orig)
        ELSE Result({
             IF At(s, n1.pp) # ";" THEN NullType(bad_stab(n1.m), n1.pp)
             ELSE Result({
                  IF At(s, n2.pp) # ";" THEN NullType(bad_stab(n2.m), n2.pp)
                  ELSE Result({
                       Result({ [m |-> r.m, t |-> r.t,
                                 pp |-> IF At(s, bits.pp) = ";" THEN bits.pp + 1
                                        ELSE bits.pp] :
                                r \in {IF bits.v = VmaZero
                                       THEN debug_make_void_type(bits.m)
                                       ELSE debug_make_int_type(bits.m,
                                                VmaToInt(bits.v) \div 8,
                                                At(s, orig) = "u")} }) :
                       bits \in {parse_number_warn(n2.m, s, n2.pp + 1)} }) :
                  n2 \in {parse_number_warn(n1.m, s, n1.pp + 1)} }) :
             n1 \in {parse_number_warn(m, s, p1)} })

\* the loop of parse_stab_enum_type; the result is [m, ok, pp, names, values]
RECURSIVE parse_stab_enum_loop(_, _, _, _, _)
parse_stab_enum_loop(m, s, pp, names, values) ==
    IF At(s, pp) \in {NUL, ";", ","}
    THEN [m |-> m, ok |-> TRUE, pp |-> pp, names |-> names, values |-> values]
    ELSE Result({
         IF p = 0
         THEN [m |-> bad_stab(m), ok |-> FALSE, pp |-> pp, names |-> names,
               values |-> values]
         ELSE Result({
              IF At(s, val.pp) # ","
              THEN [m |-> bad_stab(val.m), ok |-> FALSE, pp |-> val.pp,
                    names |-> names, values |-> values]
              ELSE parse_stab_enum_loop(val.m, s, val.pp + 1,
                       Append(names, Sub(s, pp, p)), Append(values, val.v)) :
              val \in {parse_number_warn(m, s, p + 1)} }) :
         p \in {strchr(s, pp, ":")} })

parse_stab_enum_type(m, s, orig) ==
    IF orig >= Len(s) + 1 THEN NullType(m, orig)
    ELSE IF At(s, orig) = "-" /\ strchr(s, orig, ":") = 0
    THEN NullType(bad_stab(m), Len(s) + 1)
    ELSE Result({
         IF ~l.ok THEN NullType(l.m, l.pp)
         ELSE Result({ [m |-> r.m, t |-> r.t,
                        pp |-> IF At(s, l.pp) = ";" THEN l.pp + 1 ELSE l.pp] :
                       r \in {debug_make_enum_type(l.m, l.names, l.values)} }) :
         l \in {parse_stab_enum_loop(m, s,
                    IF At(s, orig) = "-" THEN strchr(s, orig, ":") + 1 ELSE orig,
                    <<>>, <<>>)} })

\* "ar<index type>;lower;upper;<array_contents_type>", from the index type
parse_stab_array_type(m, s, orig, stringp) ==
    LET Adj(at) == ~ISDIGIT(At(s, at)) /\ At(s, at) \notin {"-", NUL}
    IN  IF orig >= Len(s) + 1 THEN NullType(m, orig)
        ELSE Result({
        IF ~tn.ok THEN NullType(tn.m, tn.pp)
        ELSE Result({
             IF At(s, ix.pp) # ";" THEN NullType(bad_stab(ix.m), ix.pp)
             ELSE Result({
                  IF At(s, lower.pp) # ";"
                  THEN NullType(bad_stab(lower.m), lower.pp)
                  ELSE Result({
                       IF At(s, upper.pp) # ";"
                       THEN NullType(bad_stab(upper.m), upper.pp)
                       ELSE Result({
                            IF el.t = DEBUG_TYPE_NULL THEN NullType(el.m, el.pp)
                            ELSE Result({
                                 [m |-> r.m, t |-> r.t, pp |-> el.pp] :
                                 r \in {debug_make_array_type(el.m, el.t, ix.t,
                                            IF Adj(ix.pp + 1)
                                               \/ Adj(lower.pp + 1)
                                            THEN VmaZero ELSE lower.v,
                                            IF Adj(ix.pp + 1)
                                               \/ Adj(lower.pp + 1)
                                            THEN VmaMinus1 ELSE upper.v,
                                            stringp)} }) :
                            el \in {parse_stab_type(upper.m, s, NoName,
                                                    upper.pp + 1, FALSE)} }) :
                       upper \in {parse_number_warn(lower.m, s,
                                      IF Adj(lower.pp + 1) THEN lower.pp + 2
                                      ELSE lower.pp + 1)} }) :
                  lower \in {parse_number_warn(ix.m, s,
                                 IF Adj(ix.pp + 1) THEN ix.pp + 2
                                 ELSE ix.pp + 1)} }) :
             ix \in {IF tn.typenums = <<0, 0>> /\ At(s, orig) # "="
                     THEN Result({ [m |-> i.m, t |-> i.t, pp |-> tn.pp] :
                                   i \in {stab_demangle_named(tn.m,
                                              <<"i", "n", "t">>,
                                              <<"int", 4, FALSE>>)} })
                     ELSE parse_stab_type(tn.m, s, NoName, orig, FALSE)} }) :
        tn \in {parse_stab_type_number(m, s, orig)} })

\* parse_stab_method_args that takes the end of the text for the ';'
RECURSIVE parse_stab_method_args_lenient(_, _, _, _)
parse_stab_method_args_lenient(m, s, pp, args) ==
    IF At(s, pp) \in {";", NUL}
    THEN [m |-> m, ok |-> TRUE, pp |-> pp + 1, args |-> args]
    ELSE IF At(s, pp) # ","
    THEN [m |-> bad_stab(m), ok |-> FALSE, pp |-> pp, args |-> args]
    ELSE Result({
         IF a.t = DEBUG_TYPE_NULL
         THEN [m |-> a.m, ok |-> FALSE, pp |-> a.pp, args |-> args]
         ELSE parse_stab_method_args_lenient(a.m, s, a.pp, Append(args, a.t)) :
         a \in {parse_stab_type(m, s, NoName, pp + 1, FALSE)} })

\* the arguments of a method type, ",type" until the ';'.  The result is
\* [m, ok, pp, args]
RECURSIVE parse_stab_method_args(_, _, _, _)
parse_stab_method_args(m, s, pp, args) ==
    IF At(s, pp) = ";" THEN [m |-> m, ok |-> TRUE, pp |-> pp + 1, args |-> args]
    ELSE IF At(s, pp) # ","
    THEN [m |-> bad_stab(m), ok |-> FALSE, pp |-> pp, args |-> args]
    ELSE Result({
         IF a.t = DEBUG_TYPE_NULL
         THEN [m |-> a.m, ok |-> FALSE, pp |-> a.pp, args |-> args]
         ELSE parse_stab_method_args(a.m, s, a.pp, Append(args, a.t)) :
         a \in {parse_stab_type(m, s, NoName, pp + 1, FALSE)} })

\* case '#': "##return;" or "#domain,return,arg,...;"; pp is after the '#'
parse_stab_type_method(m, s, pp) ==
    Result({
        IF first.t = DEBUG_TYPE_NULL THEN NullType(first.m, first.pp)
        ELSE IF At(s, pp) = "#"
        THEN IF At(s, first.pp) # ";" THEN NullType(bad_stab(first.m), first.pp)
             ELSE Result({ [m |-> r.m, t |-> r.t, pp |-> first.pp + 1] :
                           r \in {debug_make_method_type(first.m, first.t,
                                      DEBUG_TYPE_NULL, FALSE, <<>>, FALSE)} })
        ELSE IF At(s, first.pp) # "," THEN NullType(bad_stab(first.m), first.pp)
        ELSE Result({
             IF rtype.t = DEBUG_TYPE_NULL THEN NullType(rtype.m, rtype.pp)
             ELSE Result({
                  IF ~a.ok THEN NullType(a.m, a.pp)
                  ELSE Result({ Result({ [m |-> r.m, t |-> r.t, pp |-> a.pp] :
                       r \in {debug_make_method_type(a.m, rtype.t, first.t, TRUE,
                                  IF void THEN SubSeq(a.args, 1, Len(a.args) - 1)
                                  ELSE a.args,
                                  ~void)} }) :
                       \* debug_get_type_kind of the last argument is
                       \* DEBUG_KIND_VOID; a type that is not known yet has
                       \* the kind DEBUG_KIND_ILLEGAL
                       void \in {a.args # <<>>
                                    /\ \E k \in {debug_get_real_type(a.m,
                                                      a.args[Len(a.args)],
                                                      Len(a.m.dbg.types) + 1)} :
                                           /\ k # DEBUG_TYPE_NULL
                                           /\ a.m.dbg.types[k].kind = "void"} }) :
                  a \in {parse_stab_method_args(rtype.m, s, rtype.pp, <<>>)} }) :
             rtype \in {parse_stab_type(first.m, s, NoName, first.pp + 1, FALSE)} }) :
        first \in {parse_stab_type(m, s, NoName,
                                   IF At(s, pp) = "#" THEN pp + 1 ELSE pp, FALSE)} })

\* case '@': "@domain,memtype"; pp is after the '@'
parse_stab_type_offset(m, s, pp) ==
    Result({
        IF domain.t = DEBUG_TYPE_NULL THEN NullType(domain.m, domain.pp)
        ELSE IF At(s, domain.pp) # "," THEN NullType(bad_stab(domain.m), domain.pp)
        ELSE Result({
             IF memtype.t = DEBUG_TYPE_NULL THEN NullType(memtype.m, memtype.pp)
             ELSE Result({ [m |-> r.m, t |-> r.t, pp |-> memtype.pp] :
                           r \in {debug_make_offset_type(memtype.m, domain.t,
                                                         memtype.t)} }) :
             memtype \in {parse_stab_type(domain.m, s, NoName, domain.pp + 1,
                                          FALSE)} }) :
        domain \in {parse_stab_type(m, s, NoName, pp, FALSE)} })

\* the switch on the descriptor; pp is just after it.  The descriptor 'R'
\* is not part of this model and no record of the model uses it.
parse_stab_type_descriptor(m, s, type_name, pp, typenums, descriptor, stringp) ==
    CASE descriptor = "x" -> parse_stab_type_xref(m, s, type_name, pp)
      [] ISDIGIT(descriptor) \/ descriptor \in {"-", "("} ->
            parse_stab_type_alias(m, s, pp - 1, typenums)
      [] descriptor = "*" -> parse_stab_type_wrap(m, s, pp, "pointer")
      [] descriptor = "&" -> parse_stab_type_wrap(m, s, pp, "reference")
      [] descriptor = "f" -> parse_stab_type_wrap(m, s, pp, "function")
      [] descriptor = "k" -> parse_stab_type_wrap(m, s, pp, "const")
      [] descriptor = "B" -> parse_stab_type_wrap(m, s, pp, "volatile")
      [] descriptor = "S" ->
            parse_stab_type_wrap(m, s, pp, IF stringp THEN "set string" ELSE "set")
      [] descriptor = "@" -> parse_stab_type_offset(m, s, pp)
      [] descriptor = "#" -> parse_stab_type_method(m, s, pp)
      [] descriptor = "r" -> parse_stab_range_type(m, s, type_name, pp, typenums)
      [] descriptor = "b" -> parse_stab_sun_builtin_type(m, s, pp)
      [] descriptor = "e" -> parse_stab_enum_type(m, s, pp)
      [] descriptor \in {"s", "u"} ->
            parse_stab_struct_type(m, s, type_name, pp, descriptor = "s", typenums)
      [] descriptor = "a" ->
            IF At(s, pp) # "r" THEN NullType(bad_stab(m), pp)
            ELSE parse_stab_array_type(m, s, pp + 1, stringp)
      [] descriptor = "R" -> NullType(Report(m, "descriptor outside the model"), pp)
      [] OTHER -> NullType(bad_stab(m), pp)

\* the end of parse_stab_type: the type is recorded under its number
parse_stab_type_finish(d, typenums, size, slot) ==
    IF d.t = DEBUG_TYPE_NULL
    THEN [m |-> d.m, t |-> DEBUG_TYPE_NULL, pp |-> d.pp, slot |-> slot]
    ELSE Result({
         IF ~rec.ok
         THEN [m |-> rec.m, t |-> DEBUG_TYPE_NULL, pp |-> d.pp, slot |-> slot]
         ELSE [m |-> IF size # -1
                     THEN debug_call(rec.m, <<"debug_record_type_size", d.t, size>>)
                     ELSE rec.m,
               t |-> d.t, pp |-> d.pp, slot |-> slot] :
         rec \in {IF typenums[1] # -1 THEN stab_record_type(d.m, typenums, d.t)
                  ELSE [m |-> d.m, ok |-> TRUE]} })

\* The start of parse_stab_type, up to the descriptor: the type number being
\* defined, its slot and the attributes.  The result is [done, m, t, pp, slot,
\* typenums, size]; done tells that parse_stab_type returns t, and otherwise
\* the descriptor is at pp.
parse_stab_type_head(m, s, orig, want_slot) ==
    LET Return(m1, t, pp, slot) ==
            [done |-> TRUE, m |-> m1, t |-> t, pp |-> pp, slot |-> slot,
             typenums |-> <<-1, -1>>, size |-> -1,
             stringp |-> FALSE]
    IN  IF ~(ISDIGIT(At(s, orig)) \/ At(s, orig) \in {"(", "-"})
        THEN [done |-> FALSE, m |-> m, t |-> DEBUG_TYPE_NULL, pp |-> orig,
              slot |-> <<>>, typenums |-> <<-1, -1>>, size |-> -1,
              stringp |-> FALSE]
        ELSE Result({
             IF ~tn.ok THEN Return(tn.m, DEBUG_TYPE_NULL, tn.pp, <<>>)
             ELSE IF At(s, tn.pp) # "="
             THEN Result({ Return(f.m, f.t, tn.pp, <<>>) :
                           f \in {stab_find_type(tn.m, tn.typenums)} })
             ELSE Result({
                  IF ~at.ok
                  THEN Return(bad_stab(sl.m), DEBUG_TYPE_NULL, at.pp, sl.slot)
                  ELSE [done |-> FALSE, m |-> sl.m, t |-> DEBUG_TYPE_NULL,
                        pp |-> at.pp, slot |-> sl.slot,
                        typenums |-> tn.typenums, size |-> at.size,
                        stringp |-> at.stringp] :
                  sl \in {IF want_slot /\ tn.typenums[1] >= 0
                             /\ tn.typenums[2] >= 0
                          THEN stab_find_slot(tn.m, tn.typenums)
                          ELSE [m |-> tn.m, slot |-> <<>>]},
                  at \in {parse_stab_type_attrs(s, tn.pp + 1, -1, FALSE)} }) :
             tn \in {parse_stab_type_number(m, s, orig)} })

\* The result is [m, t, pp, slot]: the type (DEBUG_TYPE_NULL on failure), the
\* cursor after it, and the slot of the number being defined when want_slot
\* asks for it (<<>> is the null pointer).
parse_stab_type(m, s, type_name, orig, want_slot) ==
    IF orig >= Len(s) + 1
    THEN [m |-> m, t |-> DEBUG_TYPE_NULL, pp |-> orig, slot |-> <<>>]
    ELSE Result({
         IF h.done THEN [m |-> h.m, t |-> h.t, pp |-> h.pp, slot |-> h.slot]
         ELSE parse_stab_type_finish(
                  parse_stab_type_descriptor(h.m, s, type_name, h.pp + 1,
                                             h.typenums, At(s, h.pp), h.stringp),
                  h.typenums, h.size, h.slot) :
         h \in {parse_stab_type_head([m EXCEPT !.info.self_crossref = FALSE],
                                     s, orig, want_slot)} })

(***************************************************************************)
(* N_BINCL, N_EINCL and N_EXCL.  info.bincl_list and info.bincl_stack list *)
(* the ids of the struct bincl_file, the head of the list first.           *)
(***************************************************************************)
\* push_bincl that opens no file scope for the include file
push_bincl_noscope(m, name, hash) ==
    LET n  == Len(m.bincl_files) + 1
        nd == [name |-> name, hash |-> hash, file |-> m.info.files,
               file_types |-> 0]
    IN  [m EXCEPT !.bincl_files = Append(@, nd),
                  !.info.bincl_list = <<n>> \o @,
                  !.info.bincl_stack = <<n>> \o @]

push_bincl(m, name, hash) ==
    LET n  == Len(m.bincl_files) + 1
        nd == [name |-> name, hash |-> hash, file |-> m.info.files,
               file_types |-> 0]
    IN  [m EXCEPT !.bincl_files = Append(@, nd),
                  !.info.bincl_list = <<n>> \o @,
                  !.info.bincl_stack = <<n>> \o @,
                  !.info.files = @ + 1,
                  !.info.file_types = Append(@, 0)]

\* the result is [m, name]: the name of the file to go back to
pop_bincl(m) ==
    IF m.info.bincl_stack = <<>> THEN [m |-> m, name |-> m.info.main_filename]
    ELSE LET o  == Head(m.info.bincl_stack)
             m1 == [m EXCEPT !.info.bincl_stack = Tail(@)]
         IN  IF m.bincl_files[o].file >= m.info.files
             THEN [m |-> m1, name |-> m.info.main_filename]
             ELSE LET m2 == [m1 EXCEPT !.bincl_files[o].file_types =
                                m.info.file_types[m.bincl_files[o].file + 1]]
                  IN  [m |-> m2,
                       name |-> IF m2.info.bincl_stack = <<>>
                                THEN m.info.main_filename
                                ELSE m2.bincl_files[Head(m2.info.bincl_stack)].name]

\* the last struct bincl_file of the list with this name and hash, 0 if none
RECURSIVE find_excl_lookup_last(_, _, _, _)
find_excl_lookup_last(m, list, name, hash) ==
    IF list = <<>> THEN 0
    ELSE LET rest == find_excl_lookup_last(m, Tail(list), name, hash)
         IN  IF rest # 0 THEN rest
             ELSE IF m.bincl_files[Head(list)].hash = hash
                     /\ m.bincl_files[Head(list)].name = name
             THEN Head(list)
             ELSE 0

\* the first struct bincl_file of the list with this name and hash, 0 if none
RECURSIVE find_excl_lookup(_, _, _, _)
find_excl_lookup(m, list, name, hash) ==
    IF list = <<>> THEN 0
    ELSE IF m.bincl_files[Head(list)].hash = hash
            /\ m.bincl_files[Head(list)].name = name
    THEN Head(list)
    ELSE find_excl_lookup(m, Tail(list), name, hash)

find_excl(m, name, hash) ==
    LET l  == find_excl_lookup(m, m.info.bincl_list, name, hash)
        m1 == [m EXCEPT !.info.files = @ + 1]
    IN  IF l = 0
        THEN [warn_stab(m1, "Undefined N_EXCL")
                 EXCEPT !.info.file_types = Append(@, 0)]
        ELSE [m1 EXCEPT !.info.file_types = Append(@, m.bincl_files[l].file_types)]

(***************************************************************************)
(* Pending variables.  info.pending lists the struct stab_pending_var, the *)
(* head of the list first.                                                 *)
(***************************************************************************)
\* stab_record_variable that holds a local variable outside a function too
stab_record_variable_anywhere(m, name, type, kind, val) ==
    IF kind \in {"DEBUG_GLOBAL", "DEBUG_STATIC"}
       \/ (m.info.gcc_compiled = 0 /\ m.info.n_opt_found)
    THEN debug_record_variable(m, name, type, kind, val)
    ELSE [m EXCEPT !.info.pending =
             <<[name |-> name, type |-> type, kind |-> kind, val |-> val]>> \o @]

stab_record_variable(m, name, type, kind, val) ==
    IF kind \in {"DEBUG_GLOBAL", "DEBUG_STATIC"}
       \/ ~m.info.within_function
       \/ (m.info.gcc_compiled = 0 /\ m.info.n_opt_found)
    THEN debug_record_variable(m, name, type, kind, val)
    ELSE [m EXCEPT !.info.pending =
             <<[name |-> name, type |-> type, kind |-> kind, val |-> val]>> \o @]

\* the loop of stab_emit_pending_vars, from v to the end of the list
RECURSIVE stab_emit_pending_loop(_, _)
stab_emit_pending_loop(m, v) ==
    IF v = <<>> THEN m
    ELSE stab_emit_pending_loop(
             debug_record_variable(m, Head(v).name, Head(v).type, Head(v).kind,
                                   Head(v).val),
             Tail(v))

\* stab_emit_pending_vars without "info->pending = NULL"
stab_emit_pending_vars_keep(m) == stab_emit_pending_loop(m, m.info.pending)

stab_emit_pending_vars(m) ==
    [stab_emit_pending_loop(m, m.info.pending) EXCEPT !.info.pending = <<>>]

(***************************************************************************)
(* parse_stab_string.                                                      *)
(***************************************************************************)
\* the symbol table handed to start_stab: name and value of each symbol
Syms == << [name |-> <<"g">>, value |-> 7] >>

\* the ':' that ends the symbol name, searched from the ':' at p: pairs "::"
\* are skipped.  -1 when no ':' follows a "::"
RECURSIVE stab_name_end(_, _)
stab_name_end(s, p) ==
    IF p = 0 THEN -1
    ELSE IF At(s, p + 1) = ":" THEN stab_name_end(s, strchr(s, p + 2, ":"))
    ELSE p

\* the name of the symbol; p is the ':' that ends it
stab_symbol_name(s, p) ==
    LET special == IF At(s, 1) = "$" /\ At(s, 2) = "t" THEN <<"t", "h", "i", "s">>
                   ELSE IF At(s, 1) = "$" /\ At(s, 2) = "e"
                   THEN <<"e", "h", "_", "t", "h", "r", "o", "w">>
                   ELSE NoName
    IN  IF special # NoName THEN special
        ELSE IF p = 1 \/ (At(s, 1) = " " /\ p = 2) THEN NoName
        ELSE Sub(s, 1, p)

\* case 'G': the value of a global comes from the symbol table
stab_global_value(name, value) ==
    IF name # NoName /\ \E k \in 1..Len(Syms) : Syms[k].name = name
    THEN Syms[CHOOSE k \in 1..Len(Syms) :
                 /\ Syms[k].name = name
                 /\ \A j \in 1..(k - 1) : Syms[j].name # name].value
    ELSE value

Fail(m) == [m |-> m, ok |-> FALSE]

Done(m) == [m |-> m, ok |-> TRUE]

\* the cases that record a variable of a given kind; r is what parse_stab_type
\* returned for the type of the symbol
parse_stab_string_variable(r, name, kind, value) ==
    IF r.t = DEBUG_TYPE_NULL THEN Fail(r.m)
    ELSE Done(stab_record_variable(r.m, name, r.t, kind, value))

\* the cases that record a parameter of a given kind; r as above
parse_stab_string_parameter(r, name, kind, value) ==
    IF r.t = DEBUG_TYPE_NULL THEN Fail(r.m)
    ELSE Done(debug_call(r.m, <<"debug_record_parameter", name, r.t, kind,
                                value>>))

\* the loop "while (*p == ';')" of the cases 'f', 'F' and 'P': more types
RECURSIVE parse_stab_string_argtypes(_, _, _)
parse_stab_string_argtypes(m, s, p) ==
    IF At(s, p) # ";" THEN Done(m)
    ELSE Result({ IF r.t = DEBUG_TYPE_NULL THEN Fail(r.m)
                  ELSE parse_stab_string_argtypes(r.m, s, r.pp) :
                  r \in {parse_stab_type(m, s, NoName, p + 1, FALSE)} })

\* case 'f', 'F', up to debug_record_function; r as above
parse_stab_string_function(r, name, global, value) ==
    IF r.t = DEBUG_TYPE_NULL THEN Fail(r.m)
    ELSE Done(debug_call(r.m, <<"debug_record_function", name, r.t, global,
                                value>>))

\* case 't' after the type is parsed; r as above
parse_stab_string_typedef(r, name) ==
    IF r.t = DEBUG_TYPE_NULL THEN Fail(r.m)
    ELSE IF name = NoName THEN Done(r.m)
    ELSE LET n == debug_name_type(r.m, name, r.t)
         IN  Done(IF r.slot # <<>> THEN SlotSet(n.m, r.slot, n.t) ELSE n.m)

\* the loop of case 'T' over the undefined tags: the entry with this name
\* gets the type and leaves the list
stab_fill_tag(m, name, dtype) ==
    LET st == stab_tag_lookup(m, m.info.tags, name)
    IN  IF st = 0 THEN m
        ELSE [m EXCEPT !.stab_tags[st].slot = dtype,
                       !.info.tags = SelectSeq(@, LAMBDA x : x # st)]

\* parse_stab_string_tag that leaves the untagged type in the slot
parse_stab_string_tag_untagged(r, s, p0, name) ==
    IF r.t = DEBUG_TYPE_NULL THEN Fail(r.m)
    ELSE IF name = NoName THEN Done(r.m)
    ELSE Result({
         LET m1 == IF r.slot # <<>> THEN SlotSet(tg.m, r.slot, r.t)
                   ELSE tg.m
         IN  Done(IF ~r.m.info.self_crossref
                  THEN stab_fill_tag(m1, name, tg.t) ELSE m1) :
         tg \in {debug_tag_type(r.m, name, r.t)} })

\* case 'T' after the type is parsed; r as above, p0 is where the type began
parse_stab_string_tag(r, s, p0, name) ==
    IF r.t = DEBUG_TYPE_NULL THEN Fail(r.m)
    ELSE IF name = NoName THEN Done(r.m)
    ELSE Result({
         LET m1 == IF r.slot # <<>> THEN SlotSet(tg.m, r.slot, tg.t)
                   ELSE tg.m
             m2 == IF ~r.m.info.self_crossref
                   THEN stab_fill_tag(m1, name, tg.t) ELSE m1
         IN  IF At(s, p0) = "t"
             THEN LET n == debug_name_type(m2, name, tg.t)
                  IN  Done(IF r.slot # <<>> THEN SlotSet(n.m, r.slot, n.t)
                           ELSE n.m)
             ELSE Done(m2) :
         tg \in {debug_tag_type(r.m, name, r.t)} })

\* The symbol descriptors 'c', 'C', 'Y' and the Fortran "pF" are not part of
\* this model and no record of the model uses them.
parse_stab_string(m, stabtype, desc, value, s) ==
    IF strchr(s, 1, ":") = 0 THEN Done(m)
    ELSE Result({
         IF p0 = -1 THEN Fail(bad_stab(m))
         ELSE
         LET m1 == IF At(s, 1) = "$" /\ At(s, 2) \notin {"t", "v", "e", "_", "X"}
                   THEN warn_stab(m, "unknown C++ encoded name")
                   ELSE m
             name == stab_symbol_name(s, p0)
             q    == p0 + 1
             nolet == ISDIGIT(At(s, q)) \/ At(s, q) \in {"(", "-"}
             type == IF nolet THEN "l" ELSE At(s, q)
             p    == IF nolet THEN q ELSE q + 1
             function  == type \in {"f", "F"}
             variable  == type \in {"G", "l", "s", "X", "r", "S", "V"}
             prototype == type = "P" /\ stabtype = "N_FUN"
             parameter == \/ type = "p" /\ At(s, p) # "F"
                          \/ type = "P" /\ stabtype # "N_FUN"
                          \/ type \in {"R", "v", "a"}
             named     == type \in {"t", "T"}
         IN  CASE ~nolet /\ At(s, q) = NUL -> Fail(bad_stab(m1))
               [] type \in {"c", "C", "Y"} \/ (type = "p" /\ At(s, p) = "F") ->
                      Fail(Report(m1, "descriptor outside the model"))
               [] ~(function \/ variable \/ prototype \/ parameter \/ named) ->
                      Fail(bad_stab(m1))
               [] OTHER ->
                      \* r is the type that every case but the 'P' of a
                      \* prototype begins with
                      Result({
                          CASE function \/ prototype ->
                                  Result({
                                      IF ~f.ok THEN f
                                      ELSE parse_stab_string_argtypes(f.m, s,
                                               IF prototype THEN p ELSE r.pp) :
                                      f \in {IF prototype THEN Done(m1)
                                             ELSE parse_stab_string_function(r,
                                                      name, type = "F", value)} })
                            [] variable ->
                                  parse_stab_string_variable(r, name,
                                      CASE type = "G" -> "DEBUG_GLOBAL"
                                        [] type = "r" -> "DEBUG_REGISTER"
                                        [] type = "S" -> "DEBUG_STATIC"
                                        [] type = "V" -> "DEBUG_LOCAL_STATIC"
                                        [] OTHER -> "DEBUG_LOCAL",
                                      IF type = "G"
                                      THEN stab_global_value(name, value)
                                      ELSE value)
                            [] parameter ->
                                  parse_stab_string_parameter(r, name,
                                      CASE type = "p" -> "DEBUG_PARM_STACK"
                                        [] type = "v" -> "DEBUG_PARM_REFERENCE"
                                        [] type = "a" -> "DEBUG_PARM_REF_REG"
                                        [] OTHER -> "DEBUG_PARM_REG",
                                      value)
                            [] type = "t" -> parse_stab_string_typedef(r, name)
                            [] OTHER -> parse_stab_string_tag(r, s, p, name) :
                          r \in {IF prototype THEN NullType(m1, p)
                                 ELSE parse_stab_type(m1, s,
                                          IF named THEN name ELSE NoName,
                                          IF type = "T" /\ At(s, p) = "t"
                                          THEN p + 1 ELSE p,
                                          named)} }) :
         p0 \in {stab_name_end(s, strchr(s, 1, ":"))} })

(***************************************************************************)
(* parse_stab: one stabs symbol.                                           *)
(***************************************************************************)
GccCompiled == <<"g", "c", "c", "_", "c", "o", "m", "p", "i", "l", "e", "d", ".">>

Gcc2Compiled == <<"g", "c", "c", "2", "_", "c", "o", "m", "p", "i", "l", "e", "d", ".">>

NoEnd == -1

IS_ABSOLUTE_PATH(s) == At(s, 1) = "/"

\* the start of the compilation unit, once the run of N_SO strings is over
parse_stab_start_unit(m, type, value, s) ==
    IF m.info.so_string # NoName
       /\ (type # "N_SO" \/ s = <<>> \/ value # m.info.so_value)
    THEN [debug_call(m, <<"debug_set_filename", m.info.so_string>>)
             EXCEPT !.info.main_filename = m.info.so_string,
                    !.info.so_string = NoName,
                    !.info.gcc_compiled = 0,
                    !.info.n_opt_found = FALSE,
                    !.info.file_start_offset =
                        IF ~m.info.sections THEN m.info.so_value ELSE @,
                    !.info.files = 1,
                    !.info.file_types = <<0>>]
    ELSE m

\* emit the pending variables and end the function at endval
stab_end_function(m, endval) ==
    [debug_call(stab_emit_pending_vars(m), <<"debug_end_function", endval>>)
        EXCEPT !.info.within_function = FALSE,
               !.info.function_end = NoEnd]

parse_stab_N_LBRAC(m, desc, value) ==
    IF m.info.n_opt_found /\ desc = 1 THEN Done(m)
    ELSE IF ~m.info.within_function
    THEN Fail(Report(m, "N_LBRAC not within function"))
    ELSE LET m1 == debug_call(m, <<"debug_start_block",
                        value + m.info.file_start_offset
                              + m.info.function_start_offset>>)
             m2 == stab_emit_pending_vars(m1)
         IN  Done([m2 EXCEPT !.info.block_depth = @ + 1])

\* case N_RBRAC without the test of the depth
parse_stab_N_RBRAC_nodepth(m, desc, value) ==
    IF m.info.n_opt_found /\ desc = 1 THEN Done(m)
    ELSE Done([debug_call(stab_emit_pending_vars(m),
                          <<"debug_end_block",
                            value + m.info.file_start_offset
                                  + m.info.function_start_offset>>)
                  EXCEPT !.info.block_depth = @ - 1])

parse_stab_N_RBRAC(m, desc, value) ==
    IF m.info.n_opt_found /\ desc = 1 THEN Done(m)
    ELSE LET m1 == stab_emit_pending_vars(m)
             m2 == debug_call(m1, <<"debug_end_block",
                        value + m.info.file_start_offset
                              + m.info.function_start_offset>>)
             m3 == [m2 EXCEPT !.info.block_depth = @ - 1]
         IN  IF m3.info.block_depth < 0
             THEN Fail(Report(m3, "Too many N_RBRACs"))
             ELSE Done(m3)

\* case N_SO that appends every fragment, an absolute path too
parse_stab_N_SO_append(m, value, s) ==
    LET endval == IF s # <<>> /\ m.info.function_end # NoEnd
                     /\ m.info.function_end < value
                  THEN m.info.function_end ELSE value
        m1 == IF m.info.within_function THEN stab_end_function(m, endval) ELSE m
    IN  IF s = <<>> THEN Done(m1)
        ELSE Done([m1 EXCEPT !.info.so_string = @ \o s,
                             !.info.so_value = value])

parse_stab_N_SO(m, value, s) ==
    LET endval == IF s # <<>> /\ m.info.function_end # NoEnd
                     /\ m.info.function_end < value
                  THEN m.info.function_end ELSE value
        m1 == IF m.info.within_function THEN stab_end_function(m, endval) ELSE m
    IN  IF s = <<>> THEN Done(m1)
        ELSE Done([m1 EXCEPT !.info.so_string =
                                 IF @ = NoName \/ IS_ABSOLUTE_PATH(s) THEN s
                                 ELSE @ \o s,
                             !.info.so_value = value])

\* the default case that ends the open function at the value of the record
parse_stab_default_atvalue(m, type, desc, value, s) ==
    LET colon == strchr(s, 1, ":")
        isfun == colon # 0 /\ At(s, colon + 1) \in {"f", "F"}
        m1 == IF isfun /\ m.info.within_function
              THEN [debug_call(stab_emit_pending_vars(m), <<"debug_end_function", value>>)
                       EXCEPT !.info.function_end = NoEnd]
              ELSE m
        m2 == IF isfun
              THEN [m1 EXCEPT !.info.function_start_offset =
                                  IF m.info.sections THEN value ELSE @,
                              !.info.within_function = TRUE]
              ELSE m1
    IN  parse_stab_string(m2, type, desc, value, s)

\* the default case, which N_FUN with a name falls into
parse_stab_default(m, type, desc, value, s) ==
    LET colon == strchr(s, 1, ":")
        isfun == colon # 0 /\ At(s, colon + 1) \in {"f", "F"}
        endval == IF m.info.function_end # NoEnd /\ m.info.function_end < value
                  THEN m.info.function_end ELSE value
        m1 == IF isfun /\ m.info.within_function
              THEN [debug_call(stab_emit_pending_vars(m), <<"debug_end_function", endval>>)
                       EXCEPT !.info.function_end = NoEnd]
              ELSE m
        m2 == IF isfun
              THEN [m1 EXCEPT !.info.function_start_offset =
                                  IF m.info.sections THEN value ELSE @,
                              !.info.within_function = TRUE]
              ELSE m1
    IN  parse_stab_string(m2, type, desc, value, s)

\* case N_FUN with a name, before it falls into the default case: the end
\* of the function before it is the least value seen
parse_stab_N_FUN_name(m, value) ==
    IF m.info.within_function
       /\ (m.info.function_end = NoEnd \/ value < m.info.function_end)
    THEN [m EXCEPT !.info.function_end = value]
    ELSE m

\* case N_FUN with an empty name: the end of the function
parse_stab_N_FUN(m, value) ==
    IF m.info.within_function
    THEN Done(stab_end_function(m,
             IF m.info.sections THEN value + m.info.function_start_offset
             ELSE value))
    ELSE Done(m)

parse_stab_N_OPT(m, s) ==
    IF s = Gcc2Compiled THEN Done([m EXCEPT !.info.gcc_compiled = 2])
    ELSE IF s = GccCompiled THEN Done([m EXCEPT !.info.gcc_compiled = 1])
    ELSE Done([m EXCEPT !.info.n_opt_found = TRUE])

\* the result is [m, ok]
parse_stab(m0, type, desc, value, s) ==
    Result({
        CASE type = "N_LBRAC" -> parse_stab_N_LBRAC(m, desc, value)
          [] type = "N_RBRAC" -> parse_stab_N_RBRAC(m, desc, value)
          [] type = "N_SO" -> parse_stab_N_SO(m, value, s)
          [] type = "N_SOL" -> Done(debug_call(m, <<"debug_start_source", s>>))
          [] type = "N_BINCL" ->
                Done(debug_call(push_bincl(m, s, value), <<"debug_start_source", s>>))
          [] type = "N_EINCL" ->
                LET r == pop_bincl(m)
                IN  Done(debug_call(r.m, <<"debug_start_source", r.name>>))
          [] type = "N_EXCL" -> Done(find_excl(m, s, value))
          [] type = "N_SLINE" ->
                Done(debug_call(m, <<"debug_record_line", desc,
                        value + (IF m.info.within_function
                                 THEN m.info.function_start_offset ELSE 0)>>))
          [] type = "N_BCOMM" -> Done(debug_call(m, <<"debug_start_common_block", s>>))
          [] type = "N_ECOMM" -> Done(debug_call(m, <<"debug_end_common_block", s>>))
          [] type = "N_FUN" /\ s = <<>> -> parse_stab_N_FUN(m, value)
          [] type = "N_OPT" -> parse_stab_N_OPT(m, s)
          [] type \in {"N_FN", "N_FN_SEQ", "N_OBJ", "N_ENDM", "N_MAIN", "N_WARNING"} ->
                Done(m)
          [] OTHER ->
                parse_stab_default(
                    IF type = "N_FUN" THEN parse_stab_N_FUN_name(m, value) ELSE m,
                    type, desc, value, s) :
        m \in {parse_stab_start_unit(m0, type, value, s)} })

(***************************************************************************)
(* finish_stab: the undefined tags are filled in.                          *)
(***************************************************************************)
\* the loop over info->tags without "kind = DEBUG_KIND_STRUCT"
RECURSIVE finish_stab_tags_askind(_, _)
finish_stab_tags_askind(m, list) ==
    IF list = <<>> THEN m
    ELSE LET st == Head(list)
             r  == debug_make_undefined_tagged_type(m, m.stab_tags[st].name,
                                                    m.stab_tags[st].kind)
         IN  finish_stab_tags_askind([r.m EXCEPT !.stab_tags[st].slot = r.t],
                                     Tail(list))

\* the loop over info->tags, from the entry at the head of list
RECURSIVE finish_stab_tags(_, _)
finish_stab_tags(m, list) ==
    IF list = <<>> THEN m
    ELSE LET st   == Head(list)
             kind == IF m.stab_tags[st].kind = "DEBUG_KIND_ILLEGAL"
                     THEN "DEBUG_KIND_STRUCT" ELSE m.stab_tags[st].kind
             r    == debug_make_undefined_tagged_type(m, m.stab_tags[st].name, kind)
         IN  finish_stab_tags([r.m EXCEPT !.stab_tags[st].slot = r.t], Tail(list))

\* the result is [m, ok]
finish_stab(m, emit) ==
    LET m1 == IF emit /\ m.info.within_function
              THEN debug_call(stab_emit_pending_vars(m),
                              <<"debug_end_function", m.info.function_end>>)
              ELSE m
    IN  Done(IF emit THEN finish_stab_tags(m1, m1.info.tags) ELSE m1)

(***************************************************************************)
(* The link-time functions.  A stab of an input section is the record      *)
(* [strx, type, desc, value] of its 12 bytes; the .stabstr section is the  *)
(* sequence of its characters, NUL included, and an offset into either is  *)
(* counted from 0 as in the code.  The sections of the model have          *)
(* contents, no relocations in their strings and an output section that is *)
(* not the absolute section; pstring_offset is NULL.  The string table     *)
(* behind sinfo->strings and the hash table sinfo->includes belong to      *)
(* other files of the library: the table of strings is the sequence of the *)
(* distinct strings added, a string's index the offset it would have in    *)
(* the table written out, and the hash table is the set of the totals      *)
(* kept, each with the name of its header.                                 *)
(***************************************************************************)
STABSIZE == 12

VALOFF == 8

\* (bfd_size_type) -1, the string index of a stab that is left out
Removed == -1

\* the codes of the characters that the strings of the model are made of
Ascii ==
    [c \in {"(", ")", ",", "1", "2", "3", "a", "f", "h", "p", "s"} |->
        CASE c = "(" -> 40 [] c = ")" -> 41 [] c = "," -> 44
          [] c = "1" -> 49 [] c = "2" -> 50 [] c = "3" -> 51
          [] c = "a" -> 97 [] c = "f" -> 102 [] c = "h" -> 104
          [] c = "p" -> 112 [] c = "s" -> 115]

\* the C string that begins at the offset off of the buffer
RECURSIVE StringAt(_, _)
StringAt(buf, off) ==
    IF At(buf, off + 1) = NUL THEN <<>>
    ELSE <<buf[off + 1]>> \o StringAt(buf, off + 1)

\* the offset of the k-th string of the table in the table written out
RECURSIVE StringOffset(_, _)
StringOffset(strings, k) ==
    IF k = 1 THEN 0
    ELSE StringOffset(strings, k - 1) + Len(strings[k - 1]) + 1

\* _bfd_stringtab_size
bfd_stringtab_size(strings) == StringOffset(strings, Len(strings) + 1)

\* _bfd_stringtab_add with hash and copy: the result is [strings, index]
bfd_stringtab_add(strings, str) ==
    IF \E k \in 1..Len(strings) : strings[k] = str
    THEN [strings |-> strings,
          index |-> StringOffset(strings,
                        CHOOSE k \in 1..Len(strings) : strings[k] = str)]
    ELSE [strings |-> Append(strings, str), index |-> bfd_stringtab_size(strings)]

\* sinfo before the first section with stabs is linked: sinfo->stabstr is NULL
NoStabInfo == [stabstr |-> FALSE, strings |-> <<>>, includes |-> {}, size |-> 0]

\* *psecinfo == NULL
NoSecinfo == [set |-> FALSE, excls |-> <<>>, skips |-> FALSE, cumulative_skips |-> <<>>, stridxs |-> <<>>]

\* no section at hand
NoSection == [stabs |-> <<>>, stabstr |-> <<>>, size |-> 0, rawsize |-> 0, exclude |-> FALSE, secinfo |-> NoSecinfo]

\* the characters of one string join the total: the sum and the number of
\* the characters and the characters themselves, the digits that follow a
\* '(' left out
RECURSIVE stab_link_total_chars(_, _, _)
stab_link_total_chars(str, k, t) ==
    IF k > Len(str) THEN t
    ELSE stab_link_total_chars(str,
             IF str[k] # "(" THEN k + 1
             ELSE CHOOSE n \in (k + 1)..(Len(str) + 1) :
                      /\ ~ISDIGIT(At(str, n))
                      /\ \A d \in (k + 1)..(n - 1) : ISDIGIT(str[d]),
             [sum_chars |-> t.sum_chars + Ascii[str[k]],
              num_chars |-> t.num_chars + 1,
              symb |-> Append(t.symb, str[k])])

\* the scan from the stab after an N_BINCL to its N_EINCL: the total of
\* the strings of the stabs at nesting level 0
RECURSIVE stab_link_total(_, _, _, _, _)
stab_link_total(sec, stroff, j, nest, t) ==
    IF j > Len(sec.stabs) THEN t
    ELSE CASE sec.stabs[j].type = "N_UNDF" -> t
           [] sec.stabs[j].type = "N_EXCL" ->
                  stab_link_total(sec, stroff, j + 1, nest, t)
           [] sec.stabs[j].type = "N_EINCL" ->
                  IF nest = 0 THEN t
                  ELSE stab_link_total(sec, stroff, j + 1, nest - 1, t)
           [] sec.stabs[j].type = "N_BINCL" ->
                  stab_link_total(sec, stroff, j + 1, nest + 1, t)
           [] OTHER ->
                  stab_link_total(sec, stroff, j + 1, nest,
                      IF nest # 0 THEN t
                      ELSE stab_link_total_chars(
                               StringAt(sec.stabstr, stroff + sec.stabs[j].strx),
                               1, t))

\* stab_link_mark that leaves the N_EINCL in
RECURSIVE stab_link_mark_keepend(_, _, _, _, _)
stab_link_mark_keepend(stabs, j, nest, stridxs, skip) ==
    IF j > Len(stabs) THEN [stridxs |-> stridxs, skip |-> skip]
    ELSE CASE stabs[j].type = "N_EINCL" ->
                  IF nest = 0 THEN [stridxs |-> stridxs, skip |-> skip]
                  ELSE stab_link_mark_keepend(stabs, j + 1, nest - 1, stridxs, skip)
           [] stabs[j].type = "N_BINCL" ->
                  stab_link_mark_keepend(stabs, j + 1, nest + 1, stridxs, skip)
           [] stabs[j].type = "N_EXCL" ->
                  stab_link_mark_keepend(stabs, j + 1, nest, stridxs, skip)
           [] OTHER ->
                  IF nest = 0
                  THEN stab_link_mark_keepend(stabs, j + 1, nest,
                           [stridxs EXCEPT ![j] = Removed], skip + 1)
                  ELSE stab_link_mark_keepend(stabs, j + 1, nest, stridxs, skip)

\* the stabs of a header seen before are marked as left out; the result is
\* [stridxs, skip]
RECURSIVE stab_link_mark(_, _, _, _, _)
stab_link_mark(stabs, j, nest, stridxs, skip) ==
    IF j > Len(stabs) THEN [stridxs |-> stridxs, skip |-> skip]
    ELSE CASE stabs[j].type = "N_EINCL" ->
                  IF nest = 0
                  THEN [stridxs |-> [stridxs EXCEPT ![j] = Removed],
                        skip |-> skip + 1]
                  ELSE stab_link_mark(stabs, j + 1, nest - 1, stridxs, skip)
           [] stabs[j].type = "N_BINCL" ->
                  stab_link_mark(stabs, j + 1, nest + 1, stridxs, skip)
           [] stabs[j].type = "N_EXCL" ->
                  stab_link_mark(stabs, j + 1, nest, stridxs, skip)
           [] OTHER ->
                  IF nest = 0
                  THEN stab_link_mark(stabs, j + 1, nest,
                                      [stridxs EXCEPT ![j] = Removed], skip + 1)
                  ELSE stab_link_mark(stabs, j + 1, nest, stridxs, skip)

\* an N_BINCL at the stab i, whose name is string: the total is looked up
\* among those of the header, the stab is put on the list of the symbols to
\* patch, and it is a new total or the stabs of the header are marked
stab_link_bincl(l, sec, i, string) ==
    LET t  == stab_link_total(sec, l.stroff, i + 1, 0,
                              [sum_chars |-> 0, num_chars |-> 0, symb |-> <<>>])
        seen == [name |-> string, sum_chars |-> t.sum_chars,
                 num_chars |-> t.num_chars, symb |-> t.symb] \in l.includes
        ne == [offset |-> (i - 1) * STABSIZE, val |-> t.sum_chars,
               type |-> IF seen THEN "N_EXCL" ELSE "N_BINCL"]
    IN  IF ~seen
        THEN [l EXCEPT !.excls = <<ne>> \o @,
                       !.includes = @ \cup {[name |-> string,
                                             sum_chars |-> t.sum_chars,
                                             num_chars |-> t.num_chars,
                                             symb |-> t.symb]}]
        ELSE Result({ [l EXCEPT !.excls = <<ne>> \o @,
                                !.stridxs = k.stridxs, !.skip = k.skip] :
                      k \in {stab_link_mark(sec.stabs, i + 1, 0, l.stridxs,
                                            l.skip)} })

\* the loop over the stabs of the section, from the stab i.  l is what the
\* loop carries: stridxs, stroff, next_stroff, skip, first, the strings and
\* the totals of sinfo, the list excls and ok, FALSE at the error return
RECURSIVE stab_link_loop(_, _, _)
stab_link_loop(l, sec, i) ==
    IF i > Len(sec.stabs) THEN l
    ELSE IF l.stridxs[i] # 0 THEN stab_link_loop(l, sec, i + 1)
    ELSE IF sec.stabs[i].type = "N_UNDF" /\ ~l.first
    THEN stab_link_loop([l EXCEPT !.stroff = l.next_stroff,
                                  !.next_stroff = @ + sec.stabs[i].value,
                                  !.stridxs[i] = Removed,
                                  !.skip = @ + 1], sec, i + 1)
    ELSE LET l1 == IF sec.stabs[i].type = "N_UNDF"
                   THEN [l EXCEPT !.stroff = l.next_stroff,
                                  !.next_stroff = @ + sec.stabs[i].value,
                                  !.first = FALSE]
                   ELSE l
             symstroff == l1.stroff + sec.stabs[i].strx
         IN  IF symstroff >= Len(sec.stabstr) THEN [l1 EXCEPT !.ok = FALSE]
             ELSE Result({
                  stab_link_loop(
                      IF sec.stabs[i].type = "N_BINCL"
                      THEN stab_link_bincl([l1 EXCEPT !.strings = a.strings,
                                                      !.stridxs[i] = a.index],
                                           sec, i, StringAt(sec.stabstr, symstroff))
                      ELSE [l1 EXCEPT !.strings = a.strings,
                                      !.stridxs[i] = a.index],
                      sec, i + 1) :
                  a \in {bfd_stringtab_add(l1.strings,
                                           StringAt(sec.stabstr, symstroff))} })

\* stab_cumulative_skips that counts the stab itself
RECURSIVE stab_cumulative_skips_upto(_, _, _)
stab_cumulative_skips_upto(stridxs, i, offset) ==
    IF i > Len(stridxs) THEN <<>>
    ELSE <<IF stridxs[i] = Removed THEN offset + STABSIZE ELSE offset>>
             \o stab_cumulative_skips_upto(stridxs, i + 1,
                    IF stridxs[i] = Removed THEN offset + STABSIZE ELSE offset)

\* the array cumulative_skips: the i'th entry is the number of bytes of
\* stabs left out before the i'th stab
RECURSIVE stab_cumulative_skips(_, _, _)
stab_cumulative_skips(stridxs, i, offset) ==
    IF i > Len(stridxs) THEN <<>>
    ELSE <<offset>> \o stab_cumulative_skips(stridxs, i + 1,
                           IF stridxs[i] = Removed THEN offset + STABSIZE
                           ELSE offset)

\* the result is [ok, sinfo, sec]: sec is the section with *psecinfo
_bfd_link_section_stabs(si, sec) ==
    IF sec.size = 0 \/ Len(sec.stabstr) = 0 THEN [ok |-> TRUE, sinfo |-> si, sec |-> sec]
    ELSE IF sec.size % STABSIZE # 0 THEN [ok |-> TRUE, sinfo |-> si, sec |-> sec]
    ELSE Result({
         LET secinfo == [set |-> TRUE, excls |-> l.excls, skips |-> l.ok /\ l.skip # 0,
                         cumulative_skips |->
                             IF l.ok /\ l.skip # 0
                             THEN stab_cumulative_skips(l.stridxs, 1, 0)
                             ELSE <<>>,
                         stridxs |-> l.stridxs]
             si1 == [stabstr |-> TRUE, strings |-> l.strings,
                     includes |-> l.includes,
                     size |-> IF l.ok THEN bfd_stringtab_size(l.strings)
                              ELSE si.size]
         IN  [ok |-> l.ok, sinfo |-> si1,
              sec |-> [sec EXCEPT !.rawsize = sec.size,
                                  !.size = IF l.ok
                                           THEN (Len(sec.stabs) - l.skip) * STABSIZE
                                           ELSE @,
                                  !.exclude = l.ok /\ Len(sec.stabs) = l.skip,
                                  !.secinfo = secinfo]] :
         l \in {stab_link_loop(
                    [stridxs |-> [k \in 1..Len(sec.stabs) |-> 0],
                     stroff |-> 0, next_stroff |-> 0, skip |-> 0,
                     first |-> ~si.stabstr,
                     strings |-> IF si.stabstr THEN si.strings ELSE <<<<>>>>,
                     includes |-> si.includes, excls |-> <<>>, ok |-> TRUE],
                    sec, 1)} })

\* stab_discard_loop that takes the end of a function that is kept as well
RECURSIVE stab_discard_loop_anyend(_, _, _, _, _, _)
stab_discard_loop_anyend(sec, deleted, i, deleting, stridxs, skip) ==
    IF i > sec.rawsize \div STABSIZE THEN [stridxs |-> stridxs, skip |-> skip]
    ELSE IF stridxs[i] = Removed
    THEN stab_discard_loop_anyend(sec, deleted, i + 1, deleting, stridxs, skip)
    ELSE IF sec.stabs[i].type = "N_FUN" /\ sec.stabs[i].strx = 0
    THEN stab_discard_loop_anyend(sec, deleted, i + 1, -1,
             [stridxs EXCEPT ![i] = Removed], skip + 1)
    ELSE Result({
         IF d = 1
         THEN stab_discard_loop_anyend(sec, deleted, i + 1, d,
                                       [stridxs EXCEPT ![i] = Removed], skip + 1)
         ELSE IF d = -1 /\ sec.stabs[i].type \in {"N_STSYM", "N_LCSYM"}
                 /\ (i - 1) * STABSIZE + VALOFF \in deleted
         THEN stab_discard_loop_anyend(sec, deleted, i + 1, d,
                                       [stridxs EXCEPT ![i] = Removed], skip + 1)
         ELSE stab_discard_loop_anyend(sec, deleted, i + 1, d, stridxs, skip) :
         d \in {IF sec.stabs[i].type # "N_FUN" THEN deleting
                ELSE IF (i - 1) * STABSIZE + VALOFF \in deleted THEN 1 ELSE 0} })

\* the loop of _bfd_discard_section_stabs from the stab i; deleted is the
\* set of the offsets for which reloc_symbol_deleted_p is true, deleting is
\* -1 outside a function, 1 in one that is deleted and 0 in one that is kept
RECURSIVE stab_discard_loop(_, _, _, _, _, _)
stab_discard_loop(sec, deleted, i, deleting, stridxs, skip) ==
    IF i > sec.rawsize \div STABSIZE THEN [stridxs |-> stridxs, skip |-> skip]
    ELSE IF stridxs[i] = Removed
    THEN stab_discard_loop(sec, deleted, i + 1, deleting, stridxs, skip)
    ELSE IF sec.stabs[i].type = "N_FUN" /\ sec.stabs[i].strx = 0
    THEN stab_discard_loop(sec, deleted, i + 1, -1,
             IF deleting # 0 THEN [stridxs EXCEPT ![i] = Removed] ELSE stridxs,
             IF deleting # 0 THEN skip + 1 ELSE skip)
    ELSE Result({
         IF d = 1
         THEN stab_discard_loop(sec, deleted, i + 1, d,
                                [stridxs EXCEPT ![i] = Removed], skip + 1)
         ELSE IF d = -1 /\ sec.stabs[i].type \in {"N_STSYM", "N_LCSYM"}
                 /\ (i - 1) * STABSIZE + VALOFF \in deleted
         THEN stab_discard_loop(sec, deleted, i + 1, d,
                                [stridxs EXCEPT ![i] = Removed], skip + 1)
         ELSE stab_discard_loop(sec, deleted, i + 1, d, stridxs, skip) :
         d \in {IF sec.stabs[i].type # "N_FUN" THEN deleting
                ELSE IF (i - 1) * STABSIZE + VALOFF \in deleted THEN 1 ELSE 0} })

\* the result is [ret, sec]
_bfd_discard_section_stabs(sec, deleted) ==
    IF sec.size = 0 THEN [ret |-> FALSE, sec |-> sec]
    ELSE IF sec.size % STABSIZE # 0 THEN [ret |-> FALSE, sec |-> sec]
    ELSE IF ~sec.secinfo.set THEN [ret |-> FALSE, sec |-> sec]
    ELSE Result({
         [ret |-> l.skip > 0,
          sec |-> [sec EXCEPT !.size = @ - l.skip * STABSIZE,
                              !.exclude = @ \/ sec.size - l.skip * STABSIZE = 0,
                              !.secinfo.stridxs = l.stridxs,
                              !.secinfo.skips = @ \/ l.skip # 0,
                              !.secinfo.cumulative_skips =
                                  IF l.skip # 0
                                  THEN stab_cumulative_skips(l.stridxs, 1, 0)
                                  ELSE @]] :
         l \in {stab_discard_loop(sec, deleted, 1, -1, sec.secinfo.stridxs, 0)} })

\* the symbols of the list excls get their value and their type; e is the
\* list from the symbol at hand.  The result is [contents, asserted]:
\* asserted says that no BFD_ASSERT has failed
RECURSIVE stab_write_excls(_, _, _, _)
stab_write_excls(sec, e, contents, asserted) ==
    IF e = <<>> THEN [contents |-> contents, asserted |-> asserted]
    ELSE stab_write_excls(sec, Tail(e),
             IF Head(e).offset < sec.rawsize
             THEN [contents EXCEPT ![Head(e).offset \div STABSIZE + 1] =
                       [@ EXCEPT !.value = Head(e).val, !.type = Head(e).type]]
             ELSE contents,
             asserted /\ Head(e).offset < sec.rawsize)

\* the stabs that are kept are copied down, from the stab i; outsize is the
\* size of the output section, out what has been copied
RECURSIVE stab_write_copy(_, _, _, _, _, _)
stab_write_copy(si, sec, outsize, contents, i, w) ==
    IF i > sec.rawsize \div STABSIZE THEN w
    ELSE IF sec.secinfo.stridxs[i] = Removed
    THEN stab_write_copy(si, sec, outsize, contents, i + 1, w)
    ELSE stab_write_copy(si, sec, outsize, contents, i + 1,
             [out |-> Append(w.out,
                         IF contents[i].type # "N_UNDF"
                         THEN [contents[i] EXCEPT !.strx = sec.secinfo.stridxs[i]]
                         ELSE [contents[i] EXCEPT
                                  !.strx = sec.secinfo.stridxs[i],
                                  !.value = bfd_stringtab_size(si.strings),
                                  !.desc = outsize \div STABSIZE - 1]),
              asserted |-> w.asserted /\ (contents[i].type = "N_UNDF" => i = 1)])

\* the result is [out, asserted, size]: the stabs that are written to the
\* output section, and the number of bytes that are written
_bfd_write_section_stabs(si, sec, outsize, contents) ==
    IF ~sec.secinfo.set
    THEN [out |-> contents, asserted |-> TRUE, size |-> sec.size]
    ELSE Result({
         Result({ [out |-> w.out, size |-> sec.size,
                   asserted |-> w.asserted /\ Len(w.out) * STABSIZE = sec.size] :
                  w \in {stab_write_copy(si, sec, outsize, e.contents, 1,
                                         [out |-> <<>>, asserted |-> e.asserted])} }) :
         e \in {stab_write_excls(sec, sec.secinfo.excls, contents, TRUE)} })

\* _bfd_stab_section_offset that does not look at the string index
_bfd_stab_section_offset_nomark(sec, offset) ==
    IF ~sec.secinfo.set THEN offset
    ELSE IF offset >= sec.rawsize THEN offset - sec.rawsize + sec.size
    ELSE IF sec.secinfo.skips
    THEN offset - sec.secinfo.cumulative_skips[offset \div STABSIZE + 1]
    ELSE offset

\* (bfd_vma) -1 is -1
_bfd_stab_section_offset(sec, offset) ==
    IF ~sec.secinfo.set THEN offset
    ELSE IF offset >= sec.rawsize THEN offset - sec.rawsize + sec.size
    ELSE IF sec.secinfo.skips
    THEN IF sec.secinfo.stridxs[offset \div STABSIZE + 1] = Removed THEN -1
         ELSE offset - sec.secinfo.cumulative_skips[offset \div STABSIZE + 1]
    ELSE offset

\* no name handed to the demangler yet
NoMangled == [physname |-> <<>>, done |-> FALSE, hasargs |-> FALSE, nargs |-> 0, varargs |-> FALSE, typestrings |-> <<>>, refs |-> <<>>, aborted |-> FALSE]

\* no call of a link-time function yet
NoCall == [op |-> "none", ret |-> TRUE, links |-> 0, discards |-> 0, deleted |-> {}, before |-> NoSection, earlier |-> <<>>, offset |-> 0, result |-> 0, out |-> <<>>, asserted |-> TRUE]

(***************************************************************************)
(* The session: start_stab, then one step per record handed to parse_stab, *)
(* then finish_stab.                                                       *)
(***************************************************************************)
start_stab(sections) ==
    [sections |-> sections, so_string |-> NoName, so_value |-> 0,
     file_start_offset |-> 0, function_start_offset |-> 0,
     gcc_compiled |-> 0, n_opt_found |-> FALSE, main_filename |-> NoName,
     bincl_stack |-> <<>>, bincl_list |-> <<>>, within_function |-> FALSE,
     function_end |-> NoEnd, block_depth |-> 0, pending |-> <<>>,
     files |-> 1, file_types |-> <<0>>,
     xcoff_types |-> [k \in 1..XCOFF_TYPE_COUNT |-> DEBUG_TYPE_NULL],
     tags |-> <<>>, self_crossref |-> FALSE]

InitSession(sections) ==
    /\ info = start_stab(sections)
    /\ stab_types = <<>>
    /\ bincl_files = <<>>
    /\ stab_tags = <<>>
    /\ dbg = [types |-> <<>>, tags |-> <<>>, calls |-> <<>>]
    /\ diag = <<>>
    /\ ret = TRUE
    /\ session = "open"
    /\ hist = <<>>
    /\ sinfo = NoStabInfo
    /\ stabsec = NoSection
    /\ last = NoCall
    /\ mangled = NoMangled

\* what is remembered of a dispatch: the record, the result, whether the
\* record joined the pending list, and what the dispatch left: the length of
\* the pending list, the number of sink calls, of sink types and of messages,
\* the type number tables and the undefined tags
HistEntry(r, type, desc, value, s) ==
    [type |-> type, desc |-> desc, value |-> value, string |-> s, ok |-> r.ok,
     queued |-> Len(r.m.info.pending) > Len(info.pending),
     npend |-> Len(r.m.info.pending), ncalls |-> Len(r.m.dbg.calls),
     ntypes |-> Len(r.m.dbg.types), ndiag |-> Len(r.m.diag),
     files |-> r.m.info.files, file_types |-> r.m.info.file_types,
     types |-> r.m.stab_types, tags |-> r.m.info.tags,
     stab_tags |-> r.m.stab_tags]

Commit(r, entry, next) ==
    /\ info' = r.m.info
    /\ stab_types' = r.m.stab_types
    /\ bincl_files' = r.m.bincl_files
    /\ stab_tags' = r.m.stab_tags
    /\ dbg' = r.m.dbg
    /\ diag' = r.m.diag
    /\ ret' = r.ok
    /\ session' = next
    /\ hist' = Append(hist, entry)
    /\ UNCHANGED linker

\* parse_stab on one record; a failure ends the decoding
Dispatch(type, desc, value, s) ==
    \E r \in {parse_stab(Machine, type, desc, value, s)} :
        Commit(r, HistEntry(r, type, desc, value, s),
               IF r.ok THEN "open" ELSE "failed")

\* finish_stab; the caller passes emit = FALSE after a failed dispatch and
\* emit = TRUE at the end of the symbols
Finish(emit) ==
    /\ session \in {"open", "failed"}
    /\ emit = (session = "open")
    /\ \E r \in {finish_stab(Machine, emit)} :
           Commit(r, HistEntry(r, "finish_stab", IF emit THEN 1 ELSE 0, 0, <<>>),
                  "finished")

\* the value of a record that only passes it on to the sink: its position
\* in the symbol table, which tells the records apart at the sink
Serial == Len(hist) + 1

(***************************************************************************)
(* Functions, blocks and variables.                                        *)
(***************************************************************************)
MaxRecords == 5

FunStrings == { <<"f", ":", "F", "1">> }

VarStrings == { <<"N_LSYM", <<"a", ":", "1">> >>,
                <<"N_RSYM", <<"b", ":", "r", "1">> >>,
                <<"N_LCSYM", <<"c", ":", "V", "1">> >>,
                <<"N_GSYM", <<"g", ":", "G", "1">> >> }

OptStrings == { Gcc2Compiled, <<"x">> }

Open == session = "open" /\ Len(hist) < MaxRecords

StabFun == Open /\ \E s \in FunStrings : Dispatch("N_FUN", 0, Serial, s)

StabFunEnd == Open /\ Dispatch("N_FUN", 0, Serial, <<>>)

\* desc 1 is the outermost block of SunPRO; it is read only after an N_OPT
Descs == IF info.n_opt_found THEN {0, 1} ELSE {0}

StabLbrac == Open /\ \E desc \in Descs : Dispatch("N_LBRAC", desc, 0, <<>>)

StabRbrac == Open /\ \E desc \in Descs : Dispatch("N_RBRAC", desc, 0, <<>>)

StabVar == Open /\ \E v \in VarStrings : Dispatch(v[1], 0, Serial, v[2])

\* an N_OPT that repeats what the unit already knows is left out
StabOpt ==
    /\ Open
    /\ \E s \in OptStrings :
          /\ IF s = Gcc2Compiled THEN info.gcc_compiled = 0 ELSE ~info.n_opt_found
          /\ Dispatch("N_OPT", 0, 0, s)

StabEnd == \E emit \in BOOLEAN : Finish(emit)

InitBlocks == InitSession(FALSE)

NextBlocks ==
    StabFun \/ StabFunEnd \/ StabLbrac \/ StabRbrac \/ StabVar \/ StabOpt \/ StabEnd

SpecBlocks == InitBlocks /\ [][NextBlocks]_vars

(***************************************************************************)
(* What the sink saw of each dispatch.                                     *)
(***************************************************************************)
\* the sink calls made by dispatch i
Calls(i) ==
    SubSeq(dbg.calls, (IF i = 1 THEN 0 ELSE hist[i - 1].ncalls) + 1, hist[i].ncalls)

IsVariableCall(c) == c[1] = "debug_record_variable"

\* the values of the variables recorded by a sequence of sink calls, in order
VarVals(calls) ==
    LET v == SelectSeq(calls, IsVariableCall)
    IN  [k \in 1..Len(v) |-> v[k][5]]

\* the values of the records that were queued before dispatch i and were
\* still pending when it began, in the order of their dispatch
RECURSIVE QueuedFrom(_, _)
QueuedFrom(j, i) ==
    IF j >= i THEN <<>>
    ELSE IF hist[j].queued /\ \A k \in j..(i - 1) : hist[k].npend > 0
    THEN <<hist[j].value>> \o QueuedFrom(j + 1, i)
    ELSE QueuedFrom(j + 1, i)

QueuedBefore(i) == QueuedFrom(1, i)

Reverse(q) == [k \in 1..Len(q) |-> q[Len(q) + 1 - k]]

\* dispatch i is an N_LBRAC that began a block
BlockStarted(i) ==
    /\ hist[i].type = "N_LBRAC"
    /\ hist[i].ok
    /\ Calls(i) # <<>>
    /\ Calls(i)[1][1] = "debug_start_block"

\* how often a variable with this value has been recorded at the sink
Delivered(val) ==
    Cardinality({k \in 1..Len(dbg.calls) :
                    IsVariableCall(dbg.calls[k]) /\ dbg.calls[k][5] = val})

StillPending(val) ==
    Cardinality({k \in 1..Len(info.pending) : info.pending[k].val = val})

(***************************************************************************)
(* C1.  The variables queued before a block start are delivered to the     *)
(* sink, when the N_LBRAC is dispatched, in the order in which their       *)
(* records were dispatched (first queued, first delivered).                *)
(* The code delivers them last queued first: stab_record_variable puts a   *)
(* new entry at the head of the list and stab_emit_pending_vars walks the  *)
(* list from its head (PendingDeliveredInReverse).                         *)
(***************************************************************************)
C1_PendingDeliveredInOrder ==
    \A i \in 1..Len(hist) :
        BlockStarted(i) => VarVals(Calls(i)) = QueuedBefore(i)

PendingDeliveredInReverse ==
    \A i \in 1..Len(hist) :
        BlockStarted(i) => VarVals(Calls(i)) = Reverse(QueuedBefore(i))

(***************************************************************************)
(* C2.  Every queued variable is delivered to the sink exactly once: until *)
(* it is delivered it is on the pending list, a block start makes the      *)
(* begin-block call first and then delivers all the queued variables and   *)
(* empties the list, no later flush delivers a variable again, and nothing *)
(* is left pending when the session has been finished with emit.           *)
(***************************************************************************)
C2_DeliveredExactlyOnce ==
    /\ \A i \in 1..Len(hist) :
          hist[i].queued => Delivered(hist[i].value) + StillPending(hist[i].value) = 1
    /\ \A i \in 1..Len(hist) :
          BlockStarted(i) =>
            /\ hist[i].npend = 0
            /\ Len(Calls(i)) = 1 + Len(QueuedBefore(i))
            /\ \A k \in 2..Len(Calls(i)) : IsVariableCall(Calls(i)[k])
            /\ \A k \in 1..Len(QueuedBefore(i)) :
                  \E j \in 2..Len(Calls(i)) : Calls(i)[j][5] = QueuedBefore(i)[k]
    /\ (session = "finished" /\ hist[Len(hist)].desc = 1) => info.pending = <<>>

\* a variable was queued, the block was opened and closed at once, and the
\* session was finished with emit
C2_Witness ==
    /\ session = "finished"
    /\ hist[Len(hist)].desc = 1
    /\ \E i \in 1..Len(hist) : \E j \in (i + 1)..(Len(hist) - 1) :
          /\ hist[i].queued
          /\ BlockStarted(j)
          /\ QueuedBefore(j) # <<>>
          /\ hist[j + 1].type = "N_RBRAC" /\ hist[j + 1].ok
          /\ Calls(j + 1) # <<>>

(***************************************************************************)
(* Type numbers: records that refer to a type number and records that      *)
(* define one, in one compilation unit with the file index 0.              *)
(***************************************************************************)
MaxTypeRecords == 4

\* one number in each of three blocks of STAB_TYPES_SLOTS numbers
TypeNumbers == {1, 17, 33}

DigitChar(d) == Digits[d + 1]

RECURSIVE Numeral(_)
Numeral(n) ==
    IF n < 10 THEN <<DigitChar(n)>>
    ELSE Numeral(n \div 10) \o <<DigitChar(n % 10)>>

\* a variable of type n: "v:n"
RefString(n) == <<"v", ":">> \o Numeral(n)

\* n defined as itself, which is void: ":tn=n"
VoidDefString(n) == <<":", "t">> \o Numeral(n) \o <<"=">> \o Numeral(n)

\* 1 defined as a pointer to type 1: ":t1=*1"
PointerDefString == <<":", "t", "1", "=", "*", "1">>

\* 17 defined as type 1: ":t17=1"
AliasDefString == <<":", "t", "1", "7", "=", "1">>

DefStrings(n) ==
    {VoidDefString(n)}
        \cup (IF n = 1 THEN {PointerDefString} ELSE {})
        \cup (IF n = 17 THEN {AliasDefString} ELSE {})

OpenTypes == session = "open" /\ Len(hist) < MaxTypeRecords

TypeRef == OpenTypes /\ \E n \in TypeNumbers : Dispatch("N_LSYM", 0, Serial, RefString(n))

TypeDef ==
    OpenTypes /\ \E n \in TypeNumbers : \E s \in DefStrings(n) :
        Dispatch("N_LSYM", 0, Serial, s)

InitTypes == InitSession(FALSE)

NextTypes == TypeRef \/ TypeDef

SpecTypes == InitTypes /\ [][NextTypes]_vars

\* the machine with the type number tables that dispatch j left
MachineAt(j) ==
    IF j = 0
    THEN [Machine EXCEPT !.stab_types = <<>>, !.info.files = 1,
                         !.info.file_types = <<0>>]
    ELSE [Machine EXCEPT !.stab_types = hist[j].types,
                         !.info.files = hist[j].files,
                         !.info.file_types = hist[j].file_types]

\* the slot of a type number in m, <<>> when its block has not been allocated
SlotOfIn(m, typenums) ==
    LET r == stab_find_slot(m, typenums)
    IN  IF r.m.stab_types = m.stab_types THEN r.slot ELSE <<>>

\* what the slot of a type number holds in m
HeldIn(m, typenums) ==
    IF SlotOfIn(m, typenums) = <<>> THEN DEBUG_TYPE_NULL
    ELSE SlotGet(m, SlotOfIn(m, typenums))

IsRef(i, n) == hist[i].ok /\ hist[i].string = RefString(n)

IsDef(i, n) == hist[i].ok /\ hist[i].string \in DefStrings(n)

\* the handle that the reference of dispatch i handed to the sink
RefHandle(i) ==
    LET c == SelectSeq(Calls(i), IsVariableCall) IN c[1][3]

IsPlaceholderFor(t, n) ==
    /\ t # DEBUG_TYPE_NULL
    /\ dbg.types[t].kind = "indirect"
    /\ dbg.types[t].slot = SlotOfIn(Machine, <<0, n>>)

\* the type an indirect type stands for
Deref(t) == SlotGet(Machine, dbg.types[t].slot)

\* dispatch j made the type that the slot of n held after it
FreshAt(j, n) ==
    LET h == HeldIn(MachineAt(j), <<0, n>>)
    IN  /\ h > (IF j = 1 THEN 0 ELSE hist[j - 1].ntypes)
        /\ h <= hist[j].ntypes

LastDef(j, n) == IsDef(j, n) /\ \A k \in (j + 1)..Len(hist) : ~IsDef(k, n)

(***************************************************************************)
(* C3.  Indirection transparency.  A reference to a type number that has   *)
(* no definition yet hands out an indirect type bound to the slot of that  *)
(* number, and the binding stays the slot of the number whatever is looked *)
(* up or defined afterwards, the allocation of further blocks of slots     *)
(* included; once the number is defined, every such earlier indirect type  *)
(* stands for the defined type and a new reference hands out the defined   *)
(* type itself.                                                            *)
(***************************************************************************)
C3_IndirectionTransparency ==
    \A n \in TypeNumbers :
        /\ \A i \in 1..Len(hist) :
              IsRef(i, n) =>
                IF HeldIn(MachineAt(i - 1), <<0, n>>) = DEBUG_TYPE_NULL
                THEN IsPlaceholderFor(RefHandle(i), n)
                ELSE RefHandle(i) = HeldIn(MachineAt(i - 1), <<0, n>>)
        /\ \A j \in 1..Len(hist) :
              LastDef(j, n) =>
                /\ HeldIn(MachineAt(j), <<0, n>>) # DEBUG_TYPE_NULL
                /\ HeldIn(Machine, <<0, n>>) = HeldIn(MachineAt(j), <<0, n>>)
                /\ \A i \in 1..(j - 1) :
                      (IsRef(i, n) /\ dbg.types[RefHandle(i)].kind = "indirect"
                           /\ dbg.types[RefHandle(i)].name = NoName
                           /\ HeldIn(MachineAt(i - 1), <<0, n>>) = DEBUG_TYPE_NULL)
                        => Deref(RefHandle(i)) = HeldIn(MachineAt(j), <<0, n>>)

\* 17 was referred to before it was defined, the blocks of 33 and of 1 were
\* allocated in between, and 17 was defined afterwards
C3_Witness ==
    \E i \in 1..Len(hist) : \E j \in (i + 1)..Len(hist) :
        /\ IsRef(i, 17)
        /\ HeldIn(MachineAt(i - 1), <<0, 17>>) = DEBUG_TYPE_NULL
        /\ LastDef(j, 17)
        /\ Len(hist[j].types) >= Len(hist[i].types) + 2
        /\ Deref(RefHandle(i)) = HeldIn(MachineAt(j), <<0, 17>>)

MaxTagRecords == 4

\* a variable whose type 1 is a cross reference to a tag: "v:1=xsN:"
TagRefString(code, name) == <<"v", ":", "1", "=", "x", code>> \o name \o <<":">>

\* the tag defined as a cross reference to itself: "N:T2=xsN:"
SelfDefString(name) == name \o <<":", "T", "2", "=", "x", "s">> \o name \o <<":">>

\* the tag defined as a type of its own, here void: "N:T3=3"
RealDefString(name) == name \o <<":", "T", "3", "=", "3">>

\* a record with nothing after the name
BadString == <<"v", ":">>

TagRefs == { <<"s", <<"N">> >>, <<"e", <<"N">> >>, <<"e", <<"M">> >> }

TagNames == { <<"N">>, <<"M">> }

TagKind(code) == IF code = "s" THEN "DEBUG_KIND_STRUCT" ELSE "DEBUG_KIND_ENUM"

OpenTags == session = "open" /\ Len(hist) < MaxTagRecords

TagRef ==
    OpenTags /\ \E x \in TagRefs : Dispatch("N_LSYM", 0, Serial, TagRefString(x[1], x[2]))

TagDefSelf == OpenTags /\ Dispatch("N_LSYM", 0, Serial, SelfDefString(<<"N">>))

TagDefReal == OpenTags /\ Dispatch("N_LSYM", 0, Serial, RealDefString(<<"N">>))

TagBad == OpenTags /\ Dispatch("N_LSYM", 0, Serial, BadString)

\* stab_demangle_fund_type on a class name that is no named type: the tag is
\* looked up with the kind not known
TagDemangled ==
    /\ OpenTags
    /\ \E name \in TagNames :
         LET f == stab_find_tagged_type(Machine, name, "DEBUG_KIND_ILLEGAL")
             r == [m |-> f.m, ok |-> f.t # DEBUG_TYPE_NULL]
         IN  Commit(r, HistEntry(r, "demangle", 0, f.t, name), "open")

InitTags == InitSession(FALSE)

NextTags == TagRef \/ TagDefSelf \/ TagDefReal \/ TagBad \/ TagDemangled \/ StabEnd

SpecTags == InitTags /\ [][NextTags]_vars

\* the undefined tags, and their entries, before dispatch j
TagsBefore(j) == IF j = 1 THEN <<>> ELSE hist[j - 1].tags

EntriesBefore(j) == IF j = 1 THEN <<>> ELSE hist[j - 1].stab_tags

TypesBefore(j) == IF j = 1 THEN 0 ELSE hist[j - 1].ntypes

\* the entries of the list with this name
PendingIn(tags, entries, name) ==
    {k \in 1..Len(tags) : entries[tags[k]].name = name}

IsTagRef(i, name) ==
    hist[i].ok /\ \E x \in TagRefs : x[2] = name /\ hist[i].string = TagRefString(x[1], name)

IsSelfDef(j, name) == hist[j].ok /\ hist[j].string = SelfDefString(name)

IsRealDef(j, name) == hist[j].ok /\ hist[j].string = RealDefString(name)

\* the next type in a chain of types that stand for another type, 0 at its end
Step(t) ==
    IF t = DEBUG_TYPE_NULL THEN DEBUG_TYPE_NULL
    ELSE IF dbg.types[t].kind = "indirect" THEN SlotGet(Machine, dbg.types[t].slot)
    ELSE IF dbg.types[t].kind \in {"tagged", "named"} THEN dbg.types[t].target
    ELSE DEBUG_TYPE_NULL

RECURSIVE ChainEnds(_, _)
ChainEnds(t, fuel) ==
    IF t = DEBUG_TYPE_NULL THEN TRUE
    ELSE IF fuel = 0 THEN FALSE
    ELSE ChainEnds(Step(t), fuel - 1)

NoTypeStandsForItself ==
    \A t \in 1..Len(dbg.types) : ChainEnds(t, Len(dbg.types) + 1)

(***************************************************************************)
(* C5.  A tag definition whose type is a cross reference to the tag itself *)
(* succeeds; afterwards the tag has one entry on the list of undefined     *)
(* tags, the entry it had before if it had one, and the slot of that entry *)
(* is still empty, so that no chain of types that stand for one another    *)
(* comes back to its start; a later definition of the tag as a type of its *)
(* own fills the slot of the entry with the tagged type it makes and takes *)
(* the entry off the list.                                                 *)
(***************************************************************************)
C5_SelfCrossReference ==
    /\ NoTypeStandsForItself
    /\ \A j \in 1..Len(hist) : \A name \in TagNames :
         /\ hist[j].string = SelfDefString(name) =>
              /\ hist[j].ok
              /\ \A e \in 1..Len(EntriesBefore(j)) :
                    /\ hist[j].stab_tags[e].slot = EntriesBefore(j)[e].slot
                    /\ hist[j].stab_tags[e].type = EntriesBefore(j)[e].type
                    /\ (\E k \in 1..Len(TagsBefore(j)) : TagsBefore(j)[k] = e)
                          => \E k \in 1..Len(hist[j].tags) : hist[j].tags[k] = e
              /\ (\A i \in 1..(j - 1) : ~IsRealDef(i, name) /\ ~IsSelfDef(i, name)) =>
                    /\ Cardinality(PendingIn(hist[j].tags, hist[j].stab_tags, name)) = 1
                    /\ \A k \in PendingIn(hist[j].tags, hist[j].stab_tags, name) :
                          hist[j].stab_tags[hist[j].tags[k]].slot = DEBUG_TYPE_NULL
         /\ (IsRealDef(j, name) /\ \E i \in 1..(j - 1) : IsSelfDef(i, name)) =>
              /\ PendingIn(hist[j].tags, hist[j].stab_tags, name) = {}
              /\ \A k \in PendingIn(TagsBefore(j), EntriesBefore(j), name) :
                    LET e == TagsBefore(j)[k]
                    IN  /\ hist[j].stab_tags[e].slot > TypesBefore(j)
                        /\ dbg.types[hist[j].stab_tags[e].slot].kind = "tagged"
                        /\ dbg.types[hist[j].stab_tags[e].slot].name = name

\* the tag was referred to, defined as a cross reference to itself while its
\* entry was on the list, and then defined as a type of its own
C5_Witness ==
    \E i \in 1..Len(hist) : \E j \in (i + 1)..Len(hist) : \E k \in (j + 1)..Len(hist) :
        /\ IsTagRef(i, <<"N">>) /\ IsSelfDef(j, <<"N">>) /\ IsRealDef(k, <<"N">>)
        /\ PendingIn(TagsBefore(j), EntriesBefore(j), <<"N">>) # {}
        /\ PendingIn(TagsBefore(k), EntriesBefore(k), <<"N">>) # {}
        /\ info.tags = <<>>

IsDemangled(i, name) == hist[i].type = "demangle" /\ hist[i].string = name

\* the handle that dispatch i got for the tag it refers to
TagHandle(i) == IF hist[i].type = "demangle" THEN hist[i].value ELSE RefHandle(i)

IsTagDef(j, name) == IsSelfDef(j, name) \/ IsRealDef(j, name)

\* every reference to a tag made before the tag has a definition record gets
\* the one indirect type of the tag's entry, and no two entries of the list
\* have the same name
OneEntryPerTag(name) ==
    /\ Cardinality(PendingIn(info.tags, stab_tags, name)) <= 1
    /\ \A i \in 1..Len(hist) : \A k \in (i + 1)..Len(hist) :
          ( /\ IsTagRef(i, name) \/ IsDemangled(i, name)
            /\ IsTagRef(k, name) \/ IsDemangled(k, name)
            /\ \A j \in 1..(k - 1) : ~IsTagDef(j, name) ) =>
              /\ TagHandle(i) = TagHandle(k)
              /\ dbg.types[TagHandle(i)].kind = "indirect"
              /\ \E e \in 1..Len(stab_tags) : dbg.types[TagHandle(i)].slot = <<"tag", e>>

\* definition j filled the entry that the tag had on the list and took it off
\* the list, and the references made before it stand for the defined type
Resolves(j, name) ==
    \A k \in PendingIn(TagsBefore(j), EntriesBefore(j), name) :
        LET e == TagsBefore(j)[k]
        IN  /\ \A x \in 1..Len(hist[j].tags) : hist[j].tags[x] # e
            /\ hist[j].stab_tags[e].slot > TypesBefore(j)
            /\ hist[j].stab_tags[e].slot <= hist[j].ntypes
            /\ dbg.types[hist[j].stab_tags[e].slot].kind = "tagged"
            /\ stab_tags[e].slot = hist[j].stab_tags[e].slot
            /\ \A i \in 1..(j - 1) :
                  ((IsTagRef(i, name) \/ IsDemangled(i, name))
                      /\ dbg.types[TagHandle(i)].kind = "indirect")
                    => Deref(TagHandle(i)) = hist[j].stab_tags[e].slot

(***************************************************************************)
(* C6.  As claimed: a reference to a tag without a definition gets the     *)
(* same indirect type every time, the list of undefined tags never has two *)
(* entries of one name, and every later tag definition record for the name *)
(* fills the entry and takes it off the list.                              *)
(***************************************************************************)
C6_EveryDefinitionResolves ==
    \A name \in TagNames :
        /\ OneEntryPerTag(name)
        /\ \A j \in 1..Len(hist) : IsTagDef(j, name) => Resolves(j, name)

(***************************************************************************)
(* C6 as amended: the same, for every tag definition record that is not a  *)
(* cross reference to the tag itself; a definition that is one leaves the  *)
(* entry on the list with its slot empty.                                  *)
(***************************************************************************)
C6_RealDefinitionResolves ==
    \A name \in TagNames :
        /\ OneEntryPerTag(name)
        /\ \A j \in 1..Len(hist) :
              /\ IsRealDef(j, name) => Resolves(j, name)
              /\ IsSelfDef(j, name) =>
                    \A k \in PendingIn(TagsBefore(j), EntriesBefore(j), name) :
                        /\ \E x \in 1..Len(hist[j].tags) :
                              hist[j].tags[x] = TagsBefore(j)[k]
                        /\ hist[j].stab_tags[TagsBefore(j)[k]].slot = DEBUG_TYPE_NULL

\* the tag was referred to by a record and by the demangler, with the same
\* handle, and then defined as a type of its own
C6_Witness ==
    \E i \in 1..Len(hist) : \E k \in 1..Len(hist) : \E j \in 1..Len(hist) :
        /\ i < j /\ k < j /\ i # k
        /\ IsTagRef(i, <<"N">>) /\ IsDemangled(k, <<"N">>) /\ IsRealDef(j, <<"N">>)
        /\ TagHandle(i) = TagHandle(k)
        /\ PendingIn(TagsBefore(j), EntriesBefore(j), <<"N">>) # {}
        /\ dbg.types[Deref(TagHandle(i))].kind = "tagged"

\* the kind that the references to a tag give it: that of the first one
\* that knows the kind
RECURSIVE FirstKind(_, _)
FirstKind(i, name) ==
    IF i > Len(hist) THEN "DEBUG_KIND_ILLEGAL"
    ELSE IF IsSelfDef(i, name) THEN "DEBUG_KIND_STRUCT"
    ELSE IF \E x \in TagRefs : x[2] = name /\ hist[i].ok
                                 /\ hist[i].string = TagRefString(x[1], name)
    THEN TagKind((CHOOSE x \in TagRefs :
                     x[2] = name /\ hist[i].string = TagRefString(x[1], name))[1])
    ELSE FirstKind(i + 1, name)

Referenced(name) ==
    \E i \in 1..Len(hist) : IsTagRef(i, name) \/ IsDemangled(i, name)

\* the incomplete types that finish_stab made for a tag
Finalized(name) ==
    {t \in (hist[Len(hist) - 1].ntypes + 1)..Len(dbg.types) :
        dbg.types[t].flag /\ dbg.types[t].name = name}

FinalizedAs(name, kind) ==
    /\ Cardinality(Finalized(name)) = 1
    /\ \A t \in Finalized(name) : dbg.types[t].kind = kind

Finished == session = "finished" /\ Len(hist) > 1

(***************************************************************************)
(* C7.  As claimed: when the session has been ended, every tag that was    *)
(* referred to and has no definition record has been made an incomplete    *)
(* type of its kind, struct when no reference knew the kind, and no tag    *)
(* with a definition record has been made one.                             *)
(***************************************************************************)
C7_EndFinalizesUndefinedTags ==
    Finished =>
      \A name \in TagNames :
        /\ (Referenced(name) /\ \A j \in 1..Len(hist) : ~IsTagDef(j, name)) =>
              FinalizedAs(name, IF FirstKind(1, name) = "DEBUG_KIND_ILLEGAL"
                                THEN "DEBUG_KIND_STRUCT" ELSE FirstKind(1, name))
        /\ (\E j \in 1..Len(hist) : IsTagDef(j, name)) => Finalized(name) = {}

(***************************************************************************)
(* C7 as amended: when the session has been ended with emit set, every tag *)
(* that was referred to or defined as a cross reference to itself, and was *)
(* not defined as a type of its own, has been made an incomplete type of   *)
(* its kind, struct when no reference knew the kind, and the slot of its   *)
(* entry holds that type; no tag defined as a type of its own has been     *)
(* made one; when the session has been ended with emit not set, no tag has *)
(* been made an incomplete type.                                           *)
(***************************************************************************)
C7_EmitFinalizesUndefinedTags ==
    Finished =>
      IF hist[Len(hist)].desc = 1
      THEN \A name \in TagNames :
             IF \E j \in 1..Len(hist) : IsRealDef(j, name)
             THEN Finalized(name) = {}
             ELSE IF Referenced(name) \/ \E j \in 1..Len(hist) : IsSelfDef(j, name)
             THEN /\ FinalizedAs(name, IF FirstKind(1, name) = "DEBUG_KIND_ILLEGAL"
                                       THEN "DEBUG_KIND_STRUCT" ELSE FirstKind(1, name))
                  /\ \A k \in PendingIn(info.tags, stab_tags, name) :
                        stab_tags[info.tags[k]].slot \in Finalized(name)
             ELSE Finalized(name) = {}
      ELSE Len(dbg.types) = hist[Len(hist) - 1].ntypes

\* the session was ended with emit set after the demangler met M, of a kind
\* not known, and N was referred to and defined
C7_Witness ==
    /\ Finished
    /\ hist[Len(hist)].desc = 1
    /\ Referenced(<<"M">>)
    /\ FirstKind(1, <<"M">>) = "DEBUG_KIND_ILLEGAL"
    /\ FinalizedAs(<<"M">>, "DEBUG_KIND_STRUCT")
    /\ Referenced(<<"N">>)
    /\ \E j \in 1..Len(hist) : IsRealDef(j, <<"N">>)

(***************************************************************************)
(* Include files: N_BINCL, N_EINCL and N_EXCL records, records that define *)
(* and refer to type 1 of the newest file index, and N_SO records that     *)
(* start a new compilation unit.                                           *)
(***************************************************************************)
MaxInclRecords == 6

InclName == <<"h">>

InclHashes == {1, 2}

UnitName == <<"/", "a">>

\* the type number (f,1)
FileTypeNumber(f) == <<"(">> \o Numeral(f) \o <<",", "1", ")">>

InclDefString(f) == <<":", "t">> \o FileTypeNumber(f) \o <<"=">> \o FileTypeNumber(f)

InclRefString(f) == <<"v", ":">> \o FileTypeNumber(f)

OpenIncl == session = "open" /\ Len(hist) < MaxInclRecords

InclBegin == OpenIncl /\ \E h \in InclHashes : Dispatch("N_BINCL", 0, h, InclName)

InclEnd == OpenIncl /\ info.bincl_stack # <<>> /\ Dispatch("N_EINCL", 0, 0, <<>>)

InclExcl ==
    /\ OpenIncl
    /\ info.bincl_list # <<>>
    /\ \E h \in InclHashes : Dispatch("N_EXCL", 0, h, InclName)

InclDef ==
    /\ OpenIncl
    /\ info.so_string = NoName
    /\ info.files > 1
    /\ Dispatch("N_LSYM", 0, Serial, InclDefString(info.files - 1))

InclRef ==
    /\ OpenIncl
    /\ info.so_string = NoName
    /\ info.files > 1
    /\ Dispatch("N_LSYM", 0, Serial, InclRefString(info.files - 1))

InclUnit ==
    /\ OpenIncl
    /\ info.so_string = NoName
    /\ info.bincl_list # <<>>
    /\ Dispatch("N_SO", 0, Serial, UnitName)

InitIncl == InitSession(FALSE)

NextIncl == InclBegin \/ InclEnd \/ InclExcl \/ InclDef \/ InclRef \/ InclUnit

SpecIncl == InitIncl /\ [][NextIncl]_vars

\* the step is the dispatch of a record of this type
Dispatched(type) ==
    /\ Len(hist') = Len(hist) + 1
    /\ hist'[Len(hist')].type = type

\* the frames with the name and hash of the N_EXCL record being dispatched
Matching ==
    {l \in 1..Len(bincl_files) :
        /\ bincl_files[l].name = hist'[Len(hist')].string
        /\ bincl_files[l].hash = hist'[Len(hist')].value}

ClosedFrames == {l \in 1..Len(bincl_files) : \A k \in 1..Len(info.bincl_stack) :
                                                info.bincl_stack[k] # l}

Oldest(frames) == CHOOSE l \in frames : \A k \in frames : l <= k

Newest(frames) == CHOOSE l \in frames : \A k \in frames : l >= k

\* the table that the N_EXCL record being dispatched gave its file index
ExclTable == info'.file_types[info'.files]

ExclNoMatch ==
    /\ ExclTable = 0
    /\ hist'[Len(hist')].ok
    /\ diag' = Append(diag, "Undefined N_EXCL")

(***************************************************************************)
(* C8.  As claimed: an N_EXCL record with the name and hash of frames that *)
(* were opened and closed before gives its new file index the table of the *)
(* first of these frames; with a name and hash that no frame has, it gives *)
(* the index an empty table of its own and the decoding goes on.           *)
(***************************************************************************)
C8_ExclTakesFirstFrame ==
    [][Dispatched("N_EXCL") =>
          IF Matching = {} THEN ExclNoMatch
          ELSE (Matching \cap ClosedFrames # {}) =>
                  ExclTable = bincl_files[Oldest(Matching \cap ClosedFrames)].file_types]_vars

(***************************************************************************)
(* C8 as amended: an N_EXCL record with the name and hash of earlier       *)
(* frames gives its new file index the table of the most recently opened   *)
(* of these frames, which is the table that the file index of the frame    *)
(* had when the frame was closed, and none while the frame is open; so     *)
(* type 1 under the new index is the type that the table of the frame has  *)
(* for 1; with a name and hash that no frame has, the record gives the     *)
(* index an empty table of its own, with a message, and the decoding goes  *)
(* on.                                                                     *)
(***************************************************************************)
C8_ExclTakesNewestFrame ==
    [][ /\ Dispatched("N_EXCL") =>
             /\ info'.files = Len(info'.file_types)
             /\ bincl_files' = bincl_files
             /\ IF Matching = {} THEN ExclNoMatch
                ELSE /\ ExclTable = bincl_files[Newest(Matching)].file_types
                     /\ hist'[Len(hist')].ok
                     /\ diag' = diag
                     /\ \A l \in Matching \cap ClosedFrames :
                           (l = Newest(Matching) /\ bincl_files[l].file < info'.files - 1
                              /\ info'.file_types[bincl_files[l].file + 1]
                                     = bincl_files[l].file_types) =>
                             HeldIn([Machine EXCEPT !.info = info'],
                                    <<info'.files - 1, 1>>)
                               = HeldIn([Machine EXCEPT !.info = info'],
                                        <<bincl_files[l].file, 1>>)
        /\ (Dispatched("N_EINCL") /\ info.bincl_stack # <<>>) =>
             LET o == Head(info.bincl_stack)
             IN  /\ info'.bincl_stack = Tail(info.bincl_stack)
                 /\ bincl_files'[o].file_types =
                       IF bincl_files[o].file < info'.files
                       THEN info'.file_types[bincl_files[o].file + 1]
                       ELSE bincl_files[o].file_types
      ]_vars

\* the type defined inside an include of an earlier compilation unit is the
\* type that a reference under the file index of an N_EXCL record got, while
\* an older frame of the same name and hash has another table
C8_Witness ==
    /\ Len(hist) >= 3
    /\ hist[Len(hist) - 1].type = "N_EXCL"
    /\ hist[Len(hist)].ok
    /\ hist[Len(hist)].string = InclRefString(info.files - 1)
    /\ dbg.types[RefHandle(Len(hist))].kind = "void"
    /\ \E i \in 1..Len(hist) : hist[i].type = "N_SO"
    /\ \E l \in 1..Len(bincl_files) :
          /\ bincl_files[l].file_types = info.file_types[info.files]
          /\ bincl_files[l].file_types # 0

(***************************************************************************)
(* Range types: typedef records "name:t1=r<number>[=*2];<n2>;<n3>;" that   *)
(* define type 1 as a range of type 1 (of itself) or of type 2, with or    *)
(* without a definition of the index type.                                 *)
(***************************************************************************)
MaxRangeRecords == 1

RangeNames == { LongLongInt, LongLongUnsignedInt, <<"i", "n", "t">> }

RangeOf == { <<"1">>, <<"2">> }

RangeIndexDefs == { <<>>, <<"=", "*", "2">> }

RangeLower == { <<"0">>, <<"4">>, <<"-", "1", "2", "8">> }

RangeUpper == { <<"1", "2", "7">>, <<"-", "1">>, <<"0">>, <<"2", "5", "5">> }

RangeString(name, of, def, n2, n3) ==
    name \o <<":", "t", "1", "=", "r">> \o of \o def \o <<";">> \o n2
         \o <<";">> \o n3 \o <<";">>

OpenRange == session = "open" /\ Len(hist) < MaxRangeRecords

RangeDef ==
    /\ OpenRange
    /\ \E name \in RangeNames : \E of \in RangeOf : \E def \in RangeIndexDefs :
         \E n2 \in RangeLower : \E n3 \in RangeUpper :
            Dispatch("N_LSYM", 0, Serial, RangeString(name, of, def, n2, n3))

InitRange == InitSession(FALSE)

NextRange == RangeDef

SpecRange == InitRange /\ [][NextRange]_vars

\* the type that the typedef of dispatch j gave a name to
RangeType(j) ==
    LET t == HeldIn(MachineAt(j), <<0, 1>>)
    IN  IF t # DEBUG_TYPE_NULL /\ dbg.types[t].kind = "named"
        THEN dbg.types[dbg.types[t].target]
        ELSE Node("none", NoName, 0, <<>>, 0, FALSE)

IsInt(node, size, unsignedp) ==
    node.kind = "int" /\ node.size = size /\ node.flag = unsignedp

\* the records that define type 1 as the range 0..127 of itself
IsCharRange(j) ==
    \E name \in RangeNames :
        hist[j].string = RangeString(name, <<"1">>, <<>>, <<"0">>, <<"1", "2", "7">>)

IsMinusOneRange(j, name) ==
    \E of \in RangeOf :
        hist[j].string = RangeString(name, of, <<>>, <<"0">>, <<"-", "1">>)

MaxSynthRecords == 1

Minus(text) == <<"-">> \o text

Zero == <<"0">>

\* the lower bounds 0, 4, 8, -8, -0x80, -0x8000, -0x80000000
SynthLower ==
    { Zero, Numeral(4), Numeral(8), Minus(Numeral(8)), Minus(Numeral(128)),
      Minus(Numeral(32768)), Minus(Numeral(21474) \o Numeral(83648)) }

\* the upper bounds 0, 9, 0x7f, 0x7fff, 0x7fffffff, 0xff, 0xffff, 0xffffffff
SynthUpper ==
    { Zero, Numeral(9), Numeral(127), Numeral(32767),
      Numeral(21474) \o Numeral(83647), Numeral(255), Numeral(65535),
      Numeral(42949) \o Numeral(67295) }

SynthString(of, n2, n3) == RangeString(<<"i", "n", "t">>, of, <<>>, n2, n3)

OpenSynth == session = "open" /\ Len(hist) < MaxSynthRecords

SynthDef ==
    /\ OpenSynth
    /\ \E of \in RangeOf : \E n2 \in SynthLower : \E n3 \in SynthUpper :
          Dispatch("N_LSYM", 0, Serial, SynthString(of, n2, n3))

InitSynth == InitSession(FALSE)

NextSynth == SynthDef

SpecSynth == InitSynth /\ [][NextSynth]_vars

\* the magic bounds of the signed and of the unsigned integers of 1, 2 and 4
\* bytes, the k-th pair for 2^(k-1) bytes
SignedBounds ==
    << <<Minus(Numeral(128)), Numeral(127)>>,
       <<Minus(Numeral(32768)), Numeral(32767)>>,
       <<Minus(Numeral(21474) \o Numeral(83648)), Numeral(21474) \o Numeral(83647)>> >>

UnsignedBounds ==
    << <<Zero, Numeral(255)>>, <<Zero, Numeral(65535)>>,
       <<Zero, Numeral(42949) \o Numeral(67295)>> >>

BytesOf == <<1, 2, 4>>

\* the positive lower bounds, and the number each one reads as
PositiveLower == { Numeral(4), Numeral(8) }

BytesRead(text) == IF text = Numeral(4) THEN 4 ELSE 8

IsKind(node, kind, size) == node.kind = kind /\ node.size = size

\* dispatch j was refused with "Bad stab" and left type number 1 as it was
RefusedAsBadStab(j) ==
    /\ ~hist[j].ok
    /\ hist[j].ndiag > (IF j = 1 THEN 0 ELSE hist[j - 1].ndiag)
    /\ diag[hist[j].ndiag] = "Bad stab"
    /\ HeldIn(MachineAt(j), <<0, 1>>) = HeldIn(MachineAt(j - 1), <<0, 1>>)

\* dispatch j made a range type with these bounds over what type number 2
\* stands for
IsRangeOverIndex(j, n2, n3) ==
    /\ hist[j].ok
    /\ RangeType(j).kind = "range"
    /\ RangeType(j).slot = <<parse_number(n2, 1).v, parse_number(n3, 1).v>>
    /\ dbg.types[RangeType(j).target].kind = "indirect"
    /\ dbg.types[RangeType(j).target].slot = SlotOfIn(MachineAt(j), <<0, 2>>)

\* what the claim says of the range of dispatch j
SynthAsClaimed(j, self, n2, n3) ==
    IF self /\ n2 = Zero /\ n3 = Zero
    THEN hist[j].ok /\ IsKind(RangeType(j), "void", 0)
    ELSE IF self /\ n2 \in PositiveLower /\ n3 = Zero
    THEN hist[j].ok /\ IsKind(RangeType(j), "complex", BytesRead(n2))
    ELSE IF n2 \in PositiveLower /\ n3 = Zero
    THEN hist[j].ok /\ IsKind(RangeType(j), "float", BytesRead(n2))
    ELSE IF \E k \in 1..3 : SignedBounds[k] = <<n2, n3>>
    THEN \A k \in 1..3 : SignedBounds[k] = <<n2, n3>> =>
             hist[j].ok /\ IsInt(RangeType(j), BytesOf[k], FALSE)
    ELSE IF \E k \in 1..3 : UnsignedBounds[k] = <<n2, n3>>
    THEN \A k \in 1..3 : UnsignedBounds[k] = <<n2, n3>> =>
             hist[j].ok /\ IsInt(RangeType(j), BytesOf[k], TRUE)
    ELSE IF n3 = Numeral(9)
    THEN IF self THEN RefusedAsBadStab(j) ELSE IsRangeOverIndex(j, n2, n3)
    ELSE TRUE

MaxOverflowRecords == 1

\* 99999999999999999999, its negation and 0x10000000000000000
BigLiteral == Numeral(99999) \o Numeral(99999) \o Numeral(99999) \o Numeral(99999)

HexLiteral ==
    <<"0", "x", "1", "0", "0", "0", "0", "0", "0", "0", "0", "0", "0", "0", "0",
      "0", "0", "0", "0">>

Overflowing == { BigLiteral, Minus(BigLiteral), HexLiteral }

Literals == { Zero, Numeral(4), Numeral(9), Numeral(127) } \cup Overflowing

\* a variable of the type number x, (x,1) or (0,x)
OverflowRefString(form, x) ==
    CASE form = 1 -> <<"v", ":">> \o x
      [] form = 2 -> <<"v", ":", "(">> \o x \o <<",", "1", ")">>
      [] OTHER -> <<"v", ":", "(", "0", ",">> \o x \o <<")">>

\* the literal as the claim says it is read
Clamped(x) == IF x \in Overflowing THEN Zero ELSE x

\* the records of the model: the text, the text with 0 in the place of each
\* literal that is too large, and whether there is such a literal
OverflowRecords ==
    { [text |-> OverflowRefString(form, x),
       clamped |-> OverflowRefString(form, Clamped(x)),
       over |-> x \in Overflowing] : form \in 1..3, x \in Literals }
    \cup
    { [text |-> SynthString(of, x, y),
       clamped |-> SynthString(of, Clamped(x), Clamped(y)),
       over |-> x \in Overflowing \/ y \in Overflowing] :
      of \in RangeOf, x \in Literals, y \in Literals }

OpenOverflow == session = "open" /\ Len(hist) < MaxOverflowRecords

OverflowDef ==
    /\ OpenOverflow
    /\ \E rec \in OverflowRecords : Dispatch("N_LSYM", 0, Serial, rec.text)

InitOverflow == InitSession(FALSE)

NextOverflow == OverflowDef

SpecOverflow == InitOverflow /\ [][NextOverflow]_vars

\* the messages but for the overflow warnings
Quiet(d) == SelectSeq(d, LAMBDA x : x # "numeric overflow")

\* the step leaves what the dispatch of the text s leaves, and a warning more
LeavesAsWith(s) ==
    \E e \in {parse_stab(Machine, "N_LSYM", 0, Serial, s)} :
        /\ ret' = e.ok
        /\ info' = e.m.info
        /\ stab_types' = e.m.stab_types
        /\ stab_tags' = e.m.stab_tags
        /\ dbg' = e.m.dbg
        /\ Quiet(diag') = Quiet(e.m.diag)
        /\ Len(diag') > Len(e.m.diag)

(***************************************************************************)
(* C12.  A literal that is too large is read as zero with an overflow      *)
(* flag and the cursor after its last digit, and the record it stands in   *)
(* is decoded as the record with 0 in its place is, with a warning         *)
(* "numeric overflow" more: the dispatch has the same result, the same     *)
(* type tables and the same sink calls.                                    *)
(***************************************************************************)
C12_OverflowReadsAsZero ==
    [][ \A rec \in OverflowRecords :
          (/\ Len(hist') = Len(hist) + 1
           /\ hist'[Len(hist')].string = rec.text
           /\ rec.over)
          => /\ LeavesAsWith(rec.clamped)
             /\ \A x \in Overflowing :
                   parse_number(x \o <<";">>, 1) =
                       [v |-> VmaZero, pp |-> Len(x) + 1, ov |-> TRUE] ]_vars

\* a range of itself with a lower bound that is too large and the upper
\* bound 0 has been made void, with a warning
C12_Witness ==
    \E j \in 1..Len(hist) :
        /\ hist[j].string = SynthString(<<"1">>, BigLiteral, Zero)
        /\ hist[j].ok
        /\ IsKind(RangeType(j), "void", 0)
        /\ diag[hist[j].ndiag] = "numeric overflow"

(***************************************************************************)
(* Blocks.  The observations are made on the records of SpecBlocks.        *)
(***************************************************************************)
\* an N_OPT that is not one of the gcc marks has been read before dispatch i
SunProBefore(i) ==
    \E k \in 1..(i - 1) :
        hist[k].type = "N_OPT" /\ hist[k].string \notin {GccCompiled, Gcc2Compiled}

IsBrace(i, type) == hist[i].type = type

\* the N_LBRAC and N_RBRAC that the decoder leaves out: the outermost block
\* of SunPRO
IgnoredBrace(i) == hist[i].desc = 1 /\ SunProBefore(i)

\* dispatch j comes after a function record with a name and no function
\* record since
InFunctionAt(j) ==
    \E i \in 1..(j - 1) :
        /\ hist[i].type = "N_FUN" /\ hist[i].string # <<>>
        /\ \A k \in (i + 1)..(j - 1) : hist[k].type # "N_FUN"

\* the blocks opened and not closed before dispatch j, with the records the
\* decoder leaves out counted or not
UnclosedBefore(j, all) ==
    Cardinality({ i \in 1..(j - 1) :
                    IsBrace(i, "N_LBRAC") /\ hist[i].ok /\ (all \/ ~IgnoredBrace(i)) })
    - Cardinality({ i \in 1..(j - 1) :
                    IsBrace(i, "N_RBRAC") /\ hist[i].ok /\ (all \/ ~IgnoredBrace(i)) })

MaxUnitRecords == 4

SoStrings == { <<>>, <<"d">>, <<"/", "r">> }

SoValues == { 1, 5 }

UnitFunValues == { 3, 6 }

OpenUnit == session = "open" /\ Len(hist) < MaxUnitRecords

UnitSo == OpenUnit /\ \E s \in SoStrings : \E v \in SoValues : Dispatch("N_SO", 0, v, s)

UnitFun ==
    OpenUnit /\ \E v \in UnitFunValues : Dispatch("N_FUN", 0, v, <<"f", ":", "F", "1">>)

UnitStatic == OpenUnit /\ Dispatch("N_FUN", 0, 4, <<"s", ":", "S", "1">>)

UnitFunEnd == OpenUnit /\ Dispatch("N_FUN", 0, 0, <<>>)

UnitVar == OpenUnit /\ Dispatch("N_LSYM", 0, 7, <<"a", ":", "1">>)

InitUnit == InitSession(FALSE)

NextUnit == UnitSo \/ UnitFun \/ UnitStatic \/ UnitFunEnd \/ UnitVar \/ StabEnd

SpecUnit == InitUnit /\ [][NextUnit]_vars

IsSoFragment(j) == hist[j].type = "N_SO" /\ hist[j].string # <<>>

\* the name accumulated by the run of N_SO records that dispatch j ends or
\* goes on with, <<>> when j is no N_SO with a name
RECURSIVE Accumulated(_)
Accumulated(j) ==
    IF j = 0 \/ ~IsSoFragment(j) THEN <<>>
    ELSE IF j > 1 /\ IsSoFragment(j - 1) /\ hist[j - 1].value = hist[j].value
            /\ ~IS_ABSOLUTE_PATH(hist[j].string)
    THEN Accumulated(j - 1) \o hist[j].string
    ELSE hist[j].string

\* dispatch j goes on with the run of N_SO records before it
ContinuesRun(j) ==
    j > 1 /\ IsSoFragment(j) /\ IsSoFragment(j - 1)
          /\ hist[j - 1].value = hist[j].value

IsSetFilename(c) == c[1] = "debug_set_filename"

(***************************************************************************)
(* C17.  A run of N_SO records with a name and the same value makes one    *)
(* call of debug_set_filename: none while the run goes on, and one, the    *)
(* first sink call of the dispatch, when the first record that does not go *)
(* on with the run is dispatched (another type, an empty name or another   *)
(* value).  The name handed over is the fragments of the run in the order  *)
(* of the records, from the last fragment that is an absolute path on.     *)
(***************************************************************************)
C17_SoRunStartsOneUnit ==
    \A j \in 1..Len(hist) :
        LET calls == SelectSeq(Calls(j), IsSetFilename)
        IN  IF hist[j].type # "finish_stab" /\ j > 1 /\ IsSoFragment(j - 1)
               /\ ~ContinuesRun(j)
            THEN /\ Len(calls) = 1
                 /\ Calls(j)[1] = <<"debug_set_filename", Accumulated(j - 1)>>
            ELSE calls = <<>>

\* a run of three fragments, the second an absolute path, ended by a
\* variable record: the unit is named, then the variable is recorded
C17_Witness ==
    /\ Len(hist) = 4
    /\ hist[1].string = <<"d">> /\ hist[2].string = <<"/", "r">>
    /\ hist[3].string = <<"d">> /\ ContinuesRun(2) /\ ContinuesRun(3)
    /\ hist[4].type = "N_LSYM"
    /\ Calls(4)[1] = <<"debug_set_filename", <<"/", "r", "d">> >>
    /\ Len(Calls(4)) = 2

\* the string of dispatch j defines a function: ":f" or ":F" at its first ':'
IsFunDef(j) ==
    LET s == hist[j].string
    IN  \E p \in 1..(Len(s) - 1) :
            /\ s[p] = ":" /\ s[p + 1] \in {"f", "F"}
            /\ \A q \in 1..(p - 1) : s[q] # ":"

\* dispatch j ends a function without starting one
IsFunClose(j) ==
    \/ hist[j].type = "N_FUN" /\ hist[j].string = <<>>
    \/ hist[j].type = "N_SO"

\* the dispatches that started the function open when dispatch j arrives
OpenersBefore(j) ==
    { i \in 1..(j - 1) : IsFunDef(i) /\ \A k \in (i + 1)..(j - 1) :
                                            ~IsFunClose(k) /\ ~IsFunDef(k) }

\* the ends known for the function open when dispatch j arrives: the values
\* of the N_FUN records in it that define no function
KnownEnds(j) ==
    { hist[k].value : k \in { k \in 1..(j - 1) :
          /\ \E i \in OpenersBefore(j) : i < k
          /\ hist[k].type = "N_FUN" /\ hist[k].string # <<>> /\ ~IsFunDef(k) } }

Least(S) == CHOOSE x \in S : \A y \in S : x <= y

(***************************************************************************)
(* C18.  When a record that defines a function arrives while a function is *)
(* open, the sink gets the pending variables of the open function, then    *)
(* debug_end_function with the lesser of the record's value and the least  *)
(* end known for the function, then the new function.  An empty N_FUN and  *)
(* an N_SO that arrive while a function is open make the same calls in the *)
(* same order without the new function, and leave no function open.        *)
(***************************************************************************)
C18_FunctionEndedBeforeNext ==
    \A j \in 2..Len(hist) :
        (hist[j].type # "finish_stab" /\ OpenersBefore(j) # {}
            /\ (IsFunDef(j) \/ IsFunClose(j)))
        => LET n == hist[j - 1].npend
               c == Calls(j)
           IN  /\ hist[j].ok
               /\ Len(c) = n + (IF IsFunDef(j) THEN 2 ELSE 1)
               /\ \A k \in 1..n : c[k][1] = "debug_record_variable"
               /\ c[n + 1][1] = "debug_end_function"
               /\ IsFunDef(j) =>
                     /\ c[n + 1][2] = Least({hist[j].value} \cup KnownEnds(j))
                     /\ c[n + 2][1] = "debug_record_function"
                     /\ c[n + 2][5] = hist[j].value
               /\ (IsFunClose(j) /\ j = Len(hist)) => ~info.within_function

\* a function with a pending variable and a known end 4 is ended at 4 by the
\* function that starts at 6
C18_Witness ==
    /\ Len(hist) = 4
    /\ IsFunDef(1) /\ hist[2].type = "N_LSYM" /\ KnownEnds(4) = {4}
    /\ IsFunDef(4) /\ hist[4].value = 6
    /\ Len(Calls(4)) = 3
    /\ Calls(4)[1][1] = "debug_record_variable"
    /\ Calls(4)[2] = <<"debug_end_function", 4>>
    /\ Calls(4)[3][1] = "debug_record_function"
    /\ info.within_function

(***************************************************************************)
(* Structs and unions with fields.  One record defines the tag P as type 5 *)
(* with up to MaxFields fields of type 1; the other records are variables  *)
(* of type 5, a global and a local.                                        *)
(***************************************************************************)
MaxStructRecords == 3

MaxFields == 2

\* the visibility a field is declared with: none, private, protected,
\* public, and a character that is no visibility
Markers == { <<>>, <<"/", "0">>, <<"/", "1">>, <<"/", "2">>, <<"/", "9">> }

\* bit offset and bit size
Extents == { <<0, 0>>, <<0, 32>>, <<32, 0>> }

FieldNames == <<"x", "y", "z", "w">>

FieldSpecs == [marker : Markers, extent : Extents]

FieldString(k, f) ==
    <<FieldNames[k], ":">> \o f.marker \o <<"1", ",">> \o Numeral(f.extent[1])
        \o <<",">> \o Numeral(f.extent[2]) \o <<";">>

RECURSIVE FieldsString(_, _)
FieldsString(fs, k) ==
    IF k > Len(fs) THEN <<>> ELSE FieldString(k, fs[k]) \o FieldsString(fs, k + 1)

\* "P:T5=s8<fields>;"
StructString(kind, fs) ==
    <<"P", ":", "T", "5", "=", kind, "8">> \o FieldsString(fs, 1) \o <<";">>

FieldLists == UNION { [1..n -> FieldSpecs] : n \in 1..MaxFields }

\* the definitions of the tag P: a struct or a union of each list of fields
StructDefs ==
    { [kind |-> kind, fs |-> fs, string |-> StructString(kind, fs)] :
          kind \in {"s", "u"}, fs \in FieldLists }

StructVars == { <<"N_GSYM", <<"g", ":", "G", "5">> >>,
                <<"N_LSYM", <<"v", ":", "5">> >> }

OpenStruct == session = "open" /\ Len(hist) < MaxStructRecords

IsStructDef(j) == hist[j].type = "N_LSYM" /\ At(hist[j].string, 3) = "T"

StructDef ==
    /\ OpenStruct
    /\ \A j \in 1..Len(hist) : ~IsStructDef(j)
    /\ \E d \in StructDefs : Dispatch("N_LSYM", 0, 0, d.string)

StructVar == OpenStruct /\ \E v \in StructVars : Dispatch(v[1], 0, Serial, v[2])

InitStruct == InitSession(FALSE)

NextStruct == StructDef \/ StructVar \/ StabEnd

SpecStruct == InitStruct /\ [][NextStruct]_vars

\* the types the sink made during dispatch j
MadeBy(j) == (TypesBefore(j) + 1)..hist[j].ntypes

\* the structs and unions among them
AggregatesBy(j) == { t \in MadeBy(j) : dbg.types[t].kind \in {"struct", "union"} }

\* the visibility a marker stands for: the characters 0, 1 and 2 are the
\* visibilities the decoder knows
Declared(marker) ==
    CASE marker = <<>> -> "public"
      [] marker = <<"/", "0">> -> "private"
      [] marker = <<"/", "1">> -> "protected"
      [] marker = <<"/", "2">> -> "public"

IsStructVar(k) == \E v \in StructVars : hist[k].string = v[2]

(***************************************************************************)
(* C19.  The definition "P:T5=s8<fields>;" of a tag builds exactly one     *)
(* struct type, with the fields in the order of their declaration; the     *)
(* slot of type 5 then holds the handle of the tagged type around it, and  *)
(* every later variable of the bare type 5, global or local, is recorded   *)
(* with that same handle.                                                  *)
(***************************************************************************)
C19_TagDefinitionRegistersStruct ==
    \A j \in 1..Len(hist) : \A d \in StructDefs :
        hist[j].string = d.string
        => /\ hist[j].ok
           /\ \E t \in AggregatesBy(j) : \E h \in {HeldIn(MachineAt(j), <<0, 5>>)} :
                 /\ AggregatesBy(j) = {t}
                 /\ dbg.types[t].kind = (IF d.kind = "s" THEN "struct" ELSE "union")
                 /\ dbg.types[t].size = 8
                 /\ [k \in 1..Len(dbg.types[t].parts) |->
                        dbg.types[t].parts[k].name]
                    = [k \in 1..Len(d.fs) |-> <<FieldNames[k]>>]
                 /\ h # DEBUG_TYPE_NULL
                 /\ dbg.types[h].kind = "tagged"
                 /\ dbg.types[h].name = <<"P">>
                 /\ dbg.types[h].target = t
                 /\ \A k \in (j + 1)..Len(hist) :
                       IsStructVar(k)
                       => /\ hist[k].ok
                          /\ Len(Calls(k)) = 1
                          /\ Calls(k)[1][1] = "debug_record_variable"
                          /\ Calls(k)[1][3] = h

\* a struct of two fields defined after a variable of its type was read, and
\* a global recorded with the handle of the tag
C19_Witness ==
    /\ Len(hist) = 3
    /\ hist[1].string = <<"v", ":", "5">> /\ hist[1].ok
    /\ \E d \in StructDefs :
          /\ d.kind = "s" /\ Len(d.fs) = 2 /\ hist[2].string = d.string
          /\ hist[2].ok
    /\ hist[3].string = <<"g", ":", "G", "5">> /\ hist[3].ok
    /\ Calls(3)[1][3] = HeldIn(MachineAt(2), <<0, 5>>)
    /\ Calls(1)[1][3] # Calls(3)[1][3]
    /\ dbg.types[Calls(3)[1][3]].kind = "tagged"

(***************************************************************************)
(* Type definitions cut short.  A record "t:t5=<text>" defines type 5 by   *)
(* the first characters of a definition of one of the kinds: struct,       *)
(* union, enum, range, array, vendor builtin, method, offset.              *)
(***************************************************************************)
MaxTruncRecords == 2

\* one whole definition of each kind
WholeDefs ==
    [struct  |-> <<"s", "8", "x", ":", "1", ",", "0", ",", "3", "2", ";", ";">>,
     union   |-> <<"u", "8", "x", ":", "1", ",", "0", ",", "3", "2", ";", ";">>,
     enum    |-> <<"e", "a", ":", "1", ",", "b", ":", "2", ",", ";">>,
     range   |-> <<"r", "1", ";", "0", ";", "1", "2", "7", ";">>,
     array   |-> <<"a", "r", "1", ";", "0", ";", "3", ";", "1">>,
     builtin |-> <<"b", "s", "4", ";", "0", ";", "3", "2", ";">>,
     method  |-> <<"#", "1", ",", "1", ",", "1", ";">>,
     offset  |-> <<"@", "1", ",", "1">>]

Kinds == DOMAIN WholeDefs

\* "t:t5=" and the first n characters of the definition of the kind
TruncString(kind, n) == <<"t", ":", "t", "5", "=">> \o SubSeq(WholeDefs[kind], 1, n)

\* the records of the model: every cut that keeps the descriptor, and the
\* whole definition
TruncInputs ==
    UNION { { [kind |-> kind, n |-> n, string |-> TruncString(kind, n)] :
                  n \in 1..Len(WholeDefs[kind]) } : kind \in Kinds }

OpenTrunc == session = "open" /\ Len(hist) < MaxTruncRecords

TruncDef == OpenTrunc /\ \E x \in TruncInputs : Dispatch("N_LSYM", 0, 0, x.string)

InitTrunc == InitSession(FALSE)

NextTrunc == TruncDef \/ StabEnd

SpecTrunc == InitTrunc /\ [][NextTrunc]_vars

\* the definitions that end before the end of their text
Cuts == { x \in TruncInputs : x.n < Len(WholeDefs[x.kind]) }

\* what the registry holds under type 5 after dispatch j, and before the
\* first dispatch for j = 0
Held5(j) == HeldIn(MachineAt(j), <<0, 5>>)

\* the number of ';' among the characters of the cut
Semicolons(x) ==
    Cardinality({ i \in 1..x.n : WholeDefs[x.kind][i] = ";" })

\* the cuts that the decoder accepts: an enum that ends with the ',' of a
\* constant, and a vendor builtin that has the ';' of its first two numbers
Accepted(x) ==
    \/ x.kind = "enum" /\ WholeDefs[x.kind][x.n] = ","
    \/ x.kind = "builtin" /\ Semicolons(x) >= 2

\* C14 as claimed: every definition of every kind that ends before its end
\* makes the dispatch fail and leaves no type under its number
C14_EveryCutFails ==
    \A j \in 1..Len(hist) : \A x \in Cuts :
        (hist[j].string = x.string /\ Held5(j - 1) = DEBUG_TYPE_NULL)
        => (~hist[j].ok /\ Held5(j) = DEBUG_TYPE_NULL)

(***************************************************************************)
(* C14.  A definition 5=... of a struct, a union, a range, an array, a     *)
(* method or an offset type whose text ends before its end makes the       *)
(* dispatch of its record fail, and a dispatch that fails leaves under the *)
(* type number 5 what was there before, no type when none was defined.  An *)
(* enum whose text ends with the ',' of a constant and a vendor builtin    *)
(* whose text has the ';' of its first two numbers are accepted without    *)
(* their terminating ';' and are registered under 5.                       *)
(***************************************************************************)
C14_CutFailsButEnumAndBuiltin ==
    \A j \in 1..Len(hist) : \A x \in Cuts :
        hist[j].string = x.string
        => /\ hist[j].ok <=> Accepted(x)
           /\ ~hist[j].ok => Held5(j) = Held5(j - 1)
           /\ hist[j].ok => Held5(j) \in TypesBefore(j) + 1..hist[j].ntypes

\* a struct without the ';' that ends its fields fails as the first record
\* and type 5 stays unknown
C14_Witness ==
    /\ Len(hist) = 1
    /\ hist[1].string = TruncString("struct", 11)
    /\ ~hist[1].ok
    /\ session = "failed"
    /\ Held5(1) = DEBUG_TYPE_NULL

(***************************************************************************)
(* Classes with stub methods.  One record defines the class Foo as type 5  *)
(* with the field x and the method bar; every variant of bar has the type  *)
(* "##1;", a method without argument types, so that its argument string is *)
(* the mangled form of the arguments.                                      *)
(***************************************************************************)
MaxMethodRecords == 3

MaxVariants == 2

\* the argument strings that name types, and two that do not: an unknown
\* type letter and a reference to a type that was not remembered
GoodArgs == { <<>>, <<"i">>, <<"i", "e">>, <<"i", "c">>, <<"P", "c">>,
              <<"i", "T", "1">>, <<"U", "i">> }

BadArgs == { <<"Z">>, <<"i", "T", "5">> }

\* 'A' is neither const nor volatile, 'B' const, 'C' volatile, 'D' both
VariantSpecs == [args : GoodArgs \cup BadArgs, cv : {"A", "B", "C", "D"}]

VariantLists == UNION { [1..n -> VariantSpecs] : n \in 1..MaxVariants }

VariantString(v) == <<"#", "#", "1", ";", ":">> \o v.args \o <<";", "2", v.cv, ".">>

RECURSIVE VariantsString(_, _)
VariantsString(vs, k) ==
    IF k > Len(vs) THEN <<>>
    ELSE VariantString(vs[k]) \o VariantsString(vs, k + 1)

\* "Foo:T5=s4x:1,0,32;bar::<variants>;;"
MethodString(vs) ==
    <<"F", "o", "o", ":", "T", "5", "=", "s", "4", "x", ":", "1", ",", "0", ",", "3", "2", ";", "b", "a", "r", ":", ":">>
        \o VariantsString(vs, 1) \o <<";", ";">>

MethodDefs == { [vs |-> vs, string |-> MethodString(vs)] : vs \in VariantLists }

\* "int:t1=r1;-2147483648;2147483647;"
IntString ==
    <<"i", "n", "t", ":", "t", "1", "=", "r", "1", ";", "-", "2", "1", "4", "7", "4", "8", "3", "6", "4", "8", ";", "2", "1", "4", "7", "4", "8", "3", "6", "4", "7", ";">>

OpenMethod == session = "open" /\ Len(hist) < MaxMethodRecords

MethodInt == OpenMethod /\ hist = <<>> /\ Dispatch("N_LSYM", 0, 0, IntString)

IsMethodDef(j) == At(hist[j].string, 1) = "F"

MethodDef ==
    /\ OpenMethod
    /\ \A j \in 1..Len(hist) : ~IsMethodDef(j)
    /\ \E d \in MethodDefs : Dispatch("N_LSYM", 0, 0, d.string)

MethodVar == OpenMethod /\ Dispatch("N_LSYM", 0, Serial, <<"v", ":", "5">>)

InitMethod == InitSession(FALSE)

NextMethod == MethodInt \/ MethodDef \/ MethodVar \/ StabEnd

SpecMethod == InitMethod /\ [][NextMethod]_vars

\* the classes the sink made during dispatch j
ClassesBy(j) == { t \in MadeBy(j) : dbg.types[t].kind = "class" }

\* the methods of a class of the sink
MethodsOf(t) == dbg.types[t].parts[4]

AllGood(vs) == \A k \in 1..Len(vs) : vs[k].args \in GoodArgs

\* C15 as claimed: a variant whose argument types cannot be recovered is
\* dropped, the class is built with the other variants of the method and
\* registered, and the dispatch succeeds
C15_DemangleFailureIsLocal ==
    \A j \in 1..Len(hist) : \A d \in MethodDefs :
        hist[j].string = d.string
        => /\ hist[j].ok
           /\ Held5(j) # DEBUG_TYPE_NULL
           /\ \E t \in ClassesBy(j) :
                 \A m \in 1..Len(MethodsOf(t)) :
                     Len(MethodsOf(t)[m].variants)
                         = Cardinality({ k \in 1..Len(d.vs) :
                                             d.vs[k].args \in GoodArgs })

\* what the code does: the record of a class with a variant whose argument
\* types cannot be recovered fails, no class is made and type 5 stays
\* unknown
MethodFailureIsFatal ==
    \A j \in 1..Len(hist) : \A d \in MethodDefs :
        (hist[j].string = d.string /\ ~AllGood(d.vs))
        => /\ ~hist[j].ok
           /\ ClassesBy(j) = {}
           /\ Held5(j) = DEBUG_TYPE_NULL
           /\ "bad mangled name" \in { diag[i] : i \in 1..Len(diag) }

\* what a type of the sink is: <<kind, size, unsigned>>, and for a pointer
\* <<"pointer", kind, size, unsigned>> of its target
Shape(t) ==
    Result({ IF dbg.types[r].kind # "pointer"
             THEN <<dbg.types[r].kind, dbg.types[r].size, dbg.types[r].flag>>
             ELSE Result({ <<"pointer", dbg.types[q].kind, dbg.types[q].size,
                             dbg.types[q].flag>> :
                           q \in {debug_get_real_type(Machine, dbg.types[r].target,
                                                      Len(dbg.types) + 1)} }) :
             r \in {debug_get_real_type(Machine, t, Len(dbg.types) + 1)} })

\* the arguments that an argument string encodes, one type for each
Encoded(args) ==
    CASE args = <<>> -> <<>>
      [] args = <<"i">> -> << <<"int", 4, FALSE>> >>
      [] args = <<"i", "e">> -> << <<"int", 4, FALSE>> >>
      [] args = <<"i", "c">> -> << <<"int", 4, FALSE>>, <<"int", 1, FALSE>> >>
      [] args = <<"P", "c">> -> << <<"pointer", "int", 1, FALSE>> >>
      [] args = <<"i", "T", "1">> -> << <<"int", 4, FALSE>>, <<"int", 4, FALSE>> >>
      [] args = <<"U", "i">> -> << <<"int", 4, TRUE>> >>

\* the physical name of the variant v of Foo::bar
PhysicalName(v) ==
    <<"b", "a", "r", "_", "_">>
        \o (IF v.cv \in {"B", "D"} THEN <<"C">> ELSE <<>>)
        \o (IF v.cv \in {"C", "D"} THEN <<"V">> ELSE <<>>)
        \o <<"3", "F", "o", "o">> \o v.args

(***************************************************************************)
(* C20.  For a stub method bar of the class Foo whose argument string A is *)
(* a legacy mangling, the physical name is "bar", "__", 'C' for const, 'V' *)
(* for volatile, the length 3, "Foo" and A, which is not A; the method     *)
(* type built from it has one argument type for each argument that A       *)
(* encodes, and is varargs only when A ends with 'e'.  A = "i" gives one   *)
(* argument, a signed integer of 4 bytes, and no varargs.                  *)
(***************************************************************************)
C20_StubMethodDemangled ==
    \A j \in 1..Len(hist) : \A d \in MethodDefs :
        (hist[j].string = d.string /\ AllGood(d.vs))
        => /\ hist[j].ok
           /\ \E t \in ClassesBy(j) :
                 /\ ClassesBy(j) = {t}
                 /\ Len(MethodsOf(t)) = 1
                 /\ MethodsOf(t)[1].name = <<"b", "a", "r">>
                 /\ Len(MethodsOf(t)[1].variants) = Len(d.vs)
                 /\ \A k \in 1..Len(d.vs) :
                       \E v \in {MethodsOf(t)[1].variants[k]} :
                           /\ v.physname = PhysicalName(d.vs[k])
                           /\ v.physname # d.vs[k].args
                           /\ v.type \in MadeBy(j)
                           /\ dbg.types[v.type].kind = "method"
                           /\ dbg.types[v.type].parts[2]
                           /\ [a \in 1..Len(dbg.types[v.type].parts[3]) |->
                                  Shape(dbg.types[v.type].parts[3][a])]
                              = Encoded(d.vs[k].args)
                           /\ dbg.types[v.type].flag
                              <=> (d.vs[k].args # <<>>
                                      /\ d.vs[k].args[Len(d.vs[k].args)] = "e")

\* Foo::bar with the argument string "i", read when the sink knows no type
\* named int: one argument, a signed integer of 4 bytes, and no varargs
C20_Witness ==
    /\ Len(hist) = 1 /\ hist[1].ok
    /\ hist[1].string = MethodString(<<[args |-> <<"i">>, cv |-> "A"]>>)
    /\ \E t \in ClassesBy(1) : \E v \in {MethodsOf(t)[1].variants[1]} :
          /\ v.physname = <<"b", "a", "r", "_", "_", "3", "F", "o", "o", "i">>
          /\ Len(dbg.types[v.type].parts[3]) = 1
          /\ Shape(dbg.types[v.type].parts[3][1]) = <<"int", 4, FALSE>>
          /\ ~dbg.types[v.type].flag

\* what holds of every stub method: a volatile method with arguments gets
\* the class as one more argument in front, since stab_demangle_signature
\* takes 'C' but not 'V' for a modifier and reads "V3Foo" as the first
\* argument (an empty argument string is not demangled at all)
StubMethodDemangledButVolatile ==
    \A j \in 1..Len(hist) : \A d \in MethodDefs :
        (hist[j].string = d.string /\ AllGood(d.vs))
        => /\ hist[j].ok
           /\ \E t \in ClassesBy(j) :
                 /\ ClassesBy(j) = {t}
                 /\ Len(MethodsOf(t)) = 1
                 /\ Len(MethodsOf(t)[1].variants) = Len(d.vs)
                 /\ \A k \in 1..Len(d.vs) :
                       \E v \in {MethodsOf(t)[1].variants[k]} :
                           /\ v.physname = PhysicalName(d.vs[k])
                           /\ v.volatilep <=> d.vs[k].cv \in {"C", "D"}
                           /\ v.constp <=> d.vs[k].cv \in {"B", "D"}
                           /\ dbg.types[v.type].kind = "method"
                           /\ [a \in 1..Len(dbg.types[v.type].parts[3]) |->
                                  Shape(dbg.types[v.type].parts[3][a])]
                              = (IF v.volatilep /\ d.vs[k].args # <<>>
                                 THEN << <<"volatile", 0, FALSE>> >>
                                 ELSE <<>>)
                                   \o Encoded(d.vs[k].args)
                           /\ dbg.types[v.type].flag
                              <=> (d.vs[k].args # <<>>
                                      /\ d.vs[k].args[Len(d.vs[k].args)] = "e")

\* the volatile method Foo::bar with the argument string "i" has two
\* arguments: the class, volatile, and the integer
VolatileStubHasTwoArguments ==
    /\ Len(hist) = 1 /\ hist[1].ok
    /\ hist[1].string = MethodString(<<[args |-> <<"i">>, cv |-> "C"]>>)
    /\ \E t \in ClassesBy(1) :
          Len(dbg.types[MethodsOf(t)[1].variants[1].type].parts[3]) = 2

(***************************************************************************)
(* Constructs that a later producer may extend.  Each record defines type  *)
(* 5 with one marker taken from the known ones and an unknown one: a type  *)
(* attribute, the kind of a cross reference, the virtual and the           *)
(* visibility character of a base class, the visibility of a field.        *)
(***************************************************************************)
MaxExtRecords == 2

\* the attributes @s32; and @S; and the unknown @q3;
ExtAttrs == { <<"s", "3", "2">>, <<"S">>, <<"q", "3">> }

ExtKinds == { "s", "u", "e", "q" }

ExtVirtuals == { "0", "1", "7" }

ExtVisibilities == { "0", "1", "2", "9" }

\* "t:t5=@<attr>;5": type 5 with an attribute, defined as itself
ExtAttrString(attr) == <<"t", ":", "t", "5", "=", "@">> \o attr \o <<";", "5">>

\* "t:t5=x<kind>Foo:"
ExtXrefString(kind) == <<"t", ":", "t", "5", "=", "x", kind, "F", "o", "o", ":">>

\* "Foo:T5=s4!1,<virtual><visibility>0,1;x:1,0,32;;"
ExtBaseString(v, vi) == <<"F", "o", "o", ":", "T", "5", "=", "s", "4", "!", "1", ",", v, vi, "0", ",", "1", ";", "x", ":", "1", ",", "0", ",", "3", "2", ";", ";">>

\* "Foo:T5=s4x:/<visibility>1,0,32;;"
ExtFieldString(vi) == <<"F", "o", "o", ":", "T", "5", "=", "s", "4", "x", ":", "/", vi, "1", ",", "0", ",", "3", "2", ";", ";">>

ExtInputs ==
    { [part |-> "attr", a |-> attr, b |-> <<>>, string |-> ExtAttrString(attr)] :
          attr \in ExtAttrs }
    \cup { [part |-> "xref", a |-> <<k>>, b |-> <<>>, string |-> ExtXrefString(k)] :
               k \in ExtKinds }
    \cup { [part |-> "base", a |-> <<v>>, b |-> <<vi>>,
            string |-> ExtBaseString(v, vi)] :
               v \in ExtVirtuals, vi \in ExtVisibilities }
    \cup { [part |-> "field", a |-> <<vi>>, b |-> <<>>,
            string |-> ExtFieldString(vi)] :
               vi \in ExtVisibilities }

OpenExt == session = "open" /\ Len(hist) < MaxExtRecords

ExtDef == OpenExt /\ \E x \in ExtInputs : Dispatch("N_LSYM", 0, 0, x.string)

InitExt == InitSession(FALSE)

NextExt == ExtDef \/ StabEnd

SpecExt == InitExt /\ [][NextExt]_vars

\* what dispatch j reported: the messages it added to the diagnostics
Reports(j) ==
    { diag[k] : k \in ((IF j = 1 THEN 0 ELSE hist[j - 1].ndiag) + 1)..hist[j].ndiag }

\* the entries that dispatch j added to the list of tags not yet defined
XrefsBy(j) ==
    { hist[j].stab_tags[k] :
          k \in ((IF j = 1 THEN 0 ELSE Len(hist[j - 1].stab_tags)) + 1)
                    ..Len(hist[j].stab_tags) }

\* the structs and classes that dispatch j made
StructsBy(j) == { t \in MadeBy(j) : dbg.types[t].kind \in {"struct", "class"} }

\* the record of dispatch j succeeded and defined type 5 anew
Defined5(j) == hist[j].ok /\ Held5(j) \in MadeBy(j)

\* what holds of the known and of the unknown markers alike
ExtDefault(j, x) ==
    LET Visibility(c) == CASE c = "0" -> "private"
                           [] c = "1" -> "protected"
                           [] OTHER -> "public"
    IN  CASE x.part = "attr" -> \E t \in MadeBy(j) : dbg.types[t].kind = "void"
          [] x.part = "xref" ->
                 \A e \in XrefsBy(j) :
                     e.kind = CASE x.a = <<"u">> -> "DEBUG_KIND_UNION"
                                [] x.a = <<"e">> -> "DEBUG_KIND_ENUM"
                                [] OTHER -> "DEBUG_KIND_STRUCT"
          [] x.part = "base" ->
                 \E t \in StructsBy(j) :
                     /\ StructsBy(j) = {t}
                     /\ Len(dbg.types[t].parts[3]) = 1
                     /\ dbg.types[t].parts[3][1].is_virtual = (x.a = <<"1">>)
                     /\ dbg.types[t].parts[3][1].visibility = Visibility(x.b[1])
          [] OTHER ->
                 \E t \in StructsBy(j) :
                     /\ StructsBy(j) = {t}
                     /\ dbg.types[t].kind = "struct"
                     /\ dbg.types[t].parts[1].visibility = Visibility(x.a[1])

\* the warnings the unknown markers of the record ask for, by the claim
ExtWarnings(x) ==
    CASE x.part = "attr" ->
             IF x.a[1] \in {"s", "S"} THEN {} ELSE {"unknown type attribute"}
      [] x.part = "xref" ->
             IF x.a[1] \in {"s", "u", "e"} THEN {}
             ELSE {"unrecognized cross reference type"}
      [] x.part = "base" ->
             (IF x.a[1] \in {"0", "1"} THEN {}
              ELSE {"unknown virtual character for baseclass"})
             \cup (IF x.b[1] \in {"0", "1", "2"} THEN {}
                   ELSE {"unknown visibility character for baseclass"})
      [] OTHER ->
             IF x.a[1] \in {"0", "1", "2"} THEN {}
             ELSE {"unknown visibility character for field"}

(***************************************************************************)
(* C21.  As claimed: a record with an unknown type attribute, kind of      *)
(* cross reference, virtual or visibility character of a base class or     *)
(* visibility character of a field is dispatched with success, each        *)
(* unknown marker is reported with a warning, and the default stands in    *)
(* for it: the attribute is ignored, the cross reference is to a struct,   *)
(* the base class is not virtual, the visibility is public.                *)
(***************************************************************************)
C21_UnknownMarkersReported ==
    \A j \in 1..Len(hist) : \A x \in ExtInputs :
        hist[j].string = x.string
        => /\ Defined5(j)
           /\ ExtDefault(j, x)
           /\ (ExtWarnings(x) # {}) => (Reports(j) # {})

(***************************************************************************)
(* C21, corrected: the same, but an unknown type attribute is ignored      *)
(* with no report; every other unknown marker is reported with the warning *)
(* of its kind, and a record with no unknown marker reports nothing.       *)
(***************************************************************************)
C21_UnknownMarkersDefaulted ==
    \A j \in 1..Len(hist) : \A x \in ExtInputs :
        hist[j].string = x.string
        => /\ Defined5(j)
           /\ ExtDefault(j, x)
           /\ Reports(j) = (IF x.part = "attr" THEN {} ELSE ExtWarnings(x))

\* a class with a base whose two characters are unknown has been made after
\* a cross reference of an unknown kind was read as one to a struct
C21_Witness ==
    /\ Len(hist) = 2 /\ hist[2].ok
    /\ hist[1].string = ExtXrefString("q")
    /\ \E e \in XrefsBy(1) : e.kind = "DEBUG_KIND_STRUCT"
    /\ hist[2].string = ExtBaseString("7", "9")
    /\ Cardinality(Reports(2)) = 2
    /\ \E t \in StructsBy(2) : dbg.types[t].parts[3][1].visibility = "public"

(***************************************************************************)
(* File numbers out of range.  Between the records that open and close     *)
(* include files and start compilation units, a record refers to the type  *)
(* (f,1) or defines it, for a file number f inside or outside the file     *)
(* scopes opened so far.                                                   *)
(***************************************************************************)
MaxFileNumber == 2

FileNumbers == 0..MaxFileNumber

\* what follows the '=' of a definition of (f,1): the type itself, a
\* pointer to (0,2), a pointer to (0,2) that is defined on the way
FileBodies ==
    [self    |-> <<>>,
     pointer |-> <<"*", "(", "0", ",", "2", ")">>,
     nested  |-> <<"*", "(", "0", ",", "2", ")", "=", "(", "0", ",", "2", ")">>]

\* the symbol descriptors: a local variable, and a typedef
FileHeads == { <<"v", ":">>, <<"t", ":", "t">> }

FileRefString(f) == <<"v", ":">> \o FileTypeNumber(f)

FileDefString(head, f, body) ==
    head \o FileTypeNumber(f) \o <<"=">>
         \o (IF body = "self" THEN FileTypeNumber(f) ELSE FileBodies[body])

FileInputs ==
    { [f |-> f, body |-> "ref", string |-> FileRefString(f)] : f \in FileNumbers }
    \cup { [f |-> f, body |-> body, string |-> FileDefString(head, f, body)] :
               f \in FileNumbers, body \in DOMAIN FileBodies, head \in FileHeads }

MaxFileRecords == 4

OpenFile == session = "open" /\ Len(hist) < MaxFileRecords

FileBegin == OpenFile /\ Dispatch("N_BINCL", 0, 1, InclName)

FileEnd == OpenFile /\ info.bincl_stack # <<>> /\ Dispatch("N_EINCL", 0, 0, <<>>)

\* an include file left out, known or not: the hash 1 is that of FileBegin
FileExcl == OpenFile /\ \E h \in InclHashes : Dispatch("N_EXCL", 0, h, InclName)

FileType == OpenFile /\ \E x \in FileInputs : Dispatch("N_LSYM", 0, Serial, x.string)

FileUnit == OpenFile /\ Dispatch("N_SO", 0, Serial, UnitName)

InitFile == InitSession(FALSE)

NextFile == FileBegin \/ FileEnd \/ FileExcl \/ FileUnit \/ FileType \/ StabEnd

SpecFile == InitFile /\ [][NextFile]_vars

\* the last record before j that starts a compilation unit, 0 if none
UnitStart(j) ==
    IF \E i \in 1..(j - 1) : hist[i].type = "N_SO"
    THEN CHOOSE i \in 1..(j - 1) :
             /\ hist[i].type = "N_SO"
             /\ \A k \in (i + 1)..(j - 1) : hist[k].type # "N_SO"
    ELSE 0

\* the file scopes opened when record j is dispatched: the unit itself and
\* one for each include file begun or left out since the unit started
Scopes(j) ==
    1 + Cardinality({ i \in (UnitStart(j) + 1)..(j - 1) :
                          hist[i].type \in {"N_BINCL", "N_EXCL"} })

\* the blocks of slots before dispatch j
BlocksBefore(j) == IF j = 1 THEN <<>> ELSE hist[j - 1].types

(***************************************************************************)
(* C22.  As claimed: a reference to (f,1) or a definition of it with f not *)
(* less than the number of file scopes opened so far in the compilation    *)
(* unit makes the dispatch fail, and leaves every block of type slots as   *)
(* it was: none created, none changed.                                     *)
(***************************************************************************)
C22_OutOfRangeChangesNothing ==
    \A j \in 1..Len(hist) : \A x \in FileInputs :
        (hist[j].string = x.string /\ x.f >= Scopes(j))
        => /\ ~hist[j].ok
           /\ hist[j].types = BlocksBefore(j)

(***************************************************************************)
(* C22, corrected: the dispatch fails exactly when f is not less than the  *)
(* number of file scopes; the failure is reported, no slot is made for     *)
(* (f,1) and the table of files gets no entry for f.  A reference and a    *)
(* definition of the type as itself leave every block of slots as it was;  *)
(* a definition whose body names types of file 0 has made their slots, and *)
(* has set the slot of a type that the body defines, before it fails.      *)
(***************************************************************************)
C22_OutOfRangeFails ==
    \A j \in 1..Len(hist) : \A x \in FileInputs :
        hist[j].string = x.string
        => /\ hist[j].ok <=> x.f < Scopes(j)
           /\ hist[j].files = Scopes(j)
           /\ Len(hist[j].file_types) = Scopes(j)
           /\ x.f >= Scopes(j)
              => /\ "Type file number out of range" \in Reports(j)
                 /\ SlotOfIn(MachineAt(j), <<x.f, 1>>) = <<>>
                 /\ x.body \in {"ref", "self"} => hist[j].types = BlocksBefore(j)
                 /\ x.body \in {"pointer", "nested"}
                    => SlotOfIn(MachineAt(j), <<0, 2>>) # <<>>
                 /\ x.body = "nested" => HeldIn(MachineAt(j), <<0, 2>>) \in MadeBy(j)

\* after one include file was begun, a reference to (2,1) has failed and
\* left the blocks as they were
C22_Witness ==
    /\ Len(hist) = 3
    /\ hist[1].type = "N_SO" /\ hist[2].type = "N_BINCL"
    /\ hist[3].string = FileRefString(2)
    /\ ~hist[3].ok
    /\ hist[3].types = hist[2].types

(***************************************************************************)
(* The input sections of the link-time functions.  A section is laid out   *)
(* from the list of its stabs, each with its type and its string: the      *)
(* strings follow one another in .stabstr after the NUL at offset 0, which *)
(* is the empty string, and the header stab comes first, with the number   *)
(* of the stabs and the size of the strings.                               *)
(***************************************************************************)
Tok(type, str) == [type |-> type, str |-> str]

RECURSIVE LayOut(_, _, _, _)
LayOut(toks, k, buf, stabs) ==
    IF k > Len(toks) THEN [stabs |-> stabs, stabstr |-> buf]
    ELSE LayOut(toks, k + 1,
                IF toks[k].str = <<>> THEN buf ELSE buf \o toks[k].str \o <<NUL>>,
                Append(stabs, [type |-> toks[k].type,
                               strx |-> IF toks[k].str = <<>> THEN 0 ELSE Len(buf),
                               desc |-> 0, value |-> 0]))

SectionOf(toks) ==
    LET l == LayOut(toks, 1, <<NUL>>, <<>>)
    IN  [stabs |-> <<[type |-> "N_UNDF", strx |-> 0, desc |-> Len(toks),
                      value |-> Len(l.stabstr)]>> \o l.stabs,
         stabstr |-> l.stabstr,
         size |-> (Len(toks) + 1) * STABSIZE,
         rawsize |-> 0, exclude |-> FALSE, secinfo |-> NoSecinfo]

\* the sequences of at most n elements of S
RECURSIVE UpTo(_, _)
UpTo(S, n) ==
    IF n = 0 THEN {<<>>}
    ELSE UpTo(S, n - 1) \cup { Append(q, x) : q \in UpTo(S, n - 1), x \in S }

TokBegin == Tok("N_BINCL", <<"h">>)

TokEnd == Tok("N_EINCL", <<>>)

TokFun == Tok("N_FUN", <<"f">>)

TokFunEnd == Tok("N_FUN", <<>>)

TokStatic == Tok("N_STSYM", <<"s">>)

TokLocal == Tok("N_LSYM", <<"a">>)

(***************************************************************************)
(* SpecDiscard: a section is linked, after none or one section with a      *)
(* header before it, stabs of it are discarded for the symbols that the    *)
(* linker has deleted, and then offsets into it are translated or it is    *)
(* written out.                                                            *)
(***************************************************************************)
MaxDiscardStabs == 3

MaxDiscards == 2

DiscardSections ==
    {NoSection} \cup
    { SectionOf(q) : q \in UpTo({TokBegin, TokEnd, TokFun, TokFunEnd, TokStatic, TokLocal}, MaxDiscardStabs) }

PriorSections == { SectionOf(<<TokBegin, TokLocal, TokEnd>>), SectionOf(<<TokBegin, TokEnd>>) }

\* the offsets of the symbol values of the stabs of the section
ValueOffsets(sec) == { (i - 1) * STABSIZE + VALOFF : i \in 1..Len(sec.stabs) }

\* the offsets asked for: of a stab, of the value in it, up to the stab
\* after the end of the raw section
QueryOffsets(sec) ==
    { (i - 1) * STABSIZE + d : i \in 1..(Len(sec.stabs) + 2), d \in {0, VALOFF} }

LinkCall(sec, op) ==
    \E r \in {_bfd_link_section_stabs(sinfo, sec)} :
        /\ sinfo' = r.sinfo
        /\ stabsec' = r.sec
        /\ last' = [NoCall EXCEPT !.op = op, !.ret = r.ok, !.before = sec,
                                  !.links = last.links + 1,
                                  !.earlier = IF last.links = 0 THEN <<>>
                                              ELSE Append(last.earlier, last.before)]
        /\ UNCHANGED decoder

SectionPrior == last.op = "none" /\ \E sec \in PriorSections : LinkCall(sec, "prior")

SectionLink ==
    /\ last.op \in {"none", "prior"}
    /\ \E sec \in DiscardSections : LinkCall(sec, "link")

Linked == last.op \in {"link", "discard"} /\ (last.op = "link" => last.ret)

SectionDiscard ==
    /\ Linked
    /\ last.discards < MaxDiscards
    /\ \E deleted \in SUBSET ValueOffsets(stabsec) :
       \E r \in {_bfd_discard_section_stabs(stabsec, deleted)} :
           /\ stabsec' = r.sec
           /\ last' = [last EXCEPT !.op = "discard", !.ret = r.ret,
                                   !.before = stabsec, !.deleted = deleted,
                                   !.discards = @ + 1]
           /\ UNCHANGED <<sinfo, decoder>>

SectionOffset ==
    /\ Linked
    /\ \E offset \in QueryOffsets(stabsec) :
           /\ last' = [last EXCEPT !.op = "offset", !.offset = offset,
                           !.result = _bfd_stab_section_offset(stabsec, offset)]
           /\ UNCHANGED <<sinfo, stabsec, decoder>>

SectionWrite ==
    /\ Linked
    /\ \E w \in {_bfd_write_section_stabs(sinfo, stabsec, stabsec.size, stabsec.stabs)} :
           /\ last' = [last EXCEPT !.op = "write", !.out = w.out,
                                   !.asserted = w.asserted]
           /\ UNCHANGED <<sinfo, stabsec, decoder>>

InitDiscard == InitSession(FALSE)

NextDiscard == SectionPrior \/ SectionLink \/ SectionDiscard \/ SectionOffset \/ SectionWrite

SpecDiscard == InitDiscard /\ [][NextDiscard]_vars

\* the stabs of the section that are left out
RemovedIn(sec) == { i \in 1..Len(sec.secinfo.stridxs) : sec.secinfo.stridxs[i] = Removed }

\* the stab that holds the offset
StabAt(offset) == offset \div STABSIZE + 1

\* C23: for a section with stab info and an offset inside the raw section,
\* _bfd_stab_section_offset returns -1 exactly when the stab that holds the
\* offset is removed, and otherwise the offset less STABSIZE for each removed
\* stab before that stab; an offset at or beyond the raw size is shifted by
\* the new size less the raw size; with no stab info or no removed stab the
\* offset comes back unchanged
C23_SectionOffset ==
    last.op = "offset" =>
        /\ ~stabsec.secinfo.set => last.result = last.offset
        /\ stabsec.secinfo.set /\ last.offset >= stabsec.rawsize =>
               last.result = last.offset + (stabsec.size - stabsec.rawsize)
        /\ stabsec.secinfo.set /\ last.offset < stabsec.rawsize =>
               /\ last.result = -1 <=> StabAt(last.offset) \in RemovedIn(stabsec)
               /\ StabAt(last.offset) \notin RemovedIn(stabsec) =>
                      last.result = last.offset - STABSIZE *
                          Cardinality({ i \in RemovedIn(stabsec) :
                                            i < StabAt(last.offset) })
        /\ stabsec.secinfo.set /\ RemovedIn(stabsec) = {} =>
               last.result = last.offset

\* an offset in a stab that is kept, after a stab that a discard has removed,
\* and an offset in a removed stab
C23_Witness ==
    /\ last.op = "offset"
    /\ last.discards > 0
    /\ last.offset < stabsec.rawsize
    /\ \/ /\ last.result >= 0
          /\ last.result < last.offset
          /\ \E i \in RemovedIn(stabsec) : i > 1 /\ i < StabAt(last.offset)
       \/ /\ last.result = -1
          /\ StabAt(last.offset) > 1

\* the stabs that the call of _bfd_discard_section_stabs found still there
Present == { i \in 1..Len(last.before.stabs) : last.before.secinfo.stridxs[i] # Removed }

\* the last N_FUN still there at or before the stab i, 0 when there is none
FunAt(i) ==
    IF \E j \in Present : j <= i /\ last.before.stabs[j].type = "N_FUN"
    THEN CHOOSE j \in Present :
             /\ j <= i
             /\ last.before.stabs[j].type = "N_FUN"
             /\ \A k \in Present :
                    k <= i /\ last.before.stabs[k].type = "N_FUN" => k <= j
    ELSE 0

FunStart(j) == j # 0 /\ last.before.stabs[j].type = "N_FUN" /\ last.before.stabs[j].strx # 0

\* the function that the stab i belongs to, 0 at the top level: an N_FUN
\* with a name begins a function, and the N_FUN without a name that follows
\* is the last stab of it
FunctionOf(i) ==
    IF FunStart(FunAt(i)) THEN FunAt(i)
    ELSE IF FunAt(i) = i /\ i > 1 /\ FunStart(FunAt(i - 1)) THEN FunAt(i - 1)
    ELSE 0

SymbolDeleted(i) == (i - 1) * STABSIZE + VALOFF \in last.deleted

\* C24: _bfd_discard_section_stabs returns TRUE if and only if the call
\* removed a stab that was still there; every stab still there of a function
\* whose symbol is deleted is removed, from its N_FUN through the N_FUN with
\* the empty name that ends it; an N_STSYM or N_LCSYM at the top level whose
\* symbol is deleted is removed; no stab of a function whose symbol is kept
\* is removed
C24_DiscardRemovesDeleted ==
    last.op = "discard" =>
        /\ last.ret <=> \E i \in Present : i \in RemovedIn(stabsec)
        /\ \A i \in Present :
               /\ FunctionOf(i) # 0 /\ SymbolDeleted(FunctionOf(i)) =>
                      i \in RemovedIn(stabsec)
               /\ FunctionOf(i) # 0 /\ ~SymbolDeleted(FunctionOf(i)) =>
                      i \notin RemovedIn(stabsec)
               /\ /\ FunctionOf(i) = 0
                  /\ last.before.stabs[i].type \in {"N_STSYM", "N_LCSYM"}
                  /\ SymbolDeleted(i)
                  => i \in RemovedIn(stabsec)

\* a second call, for a section with two functions, one deleted by the first
\* call: the other one is kept with its end and a static at the top level
\* goes, or the other one goes with its end
C24_Witness ==
    /\ last.op = "discard"
    /\ last.discards = 2
    /\ last.ret
    /\ \E i \in 1..Len(stabsec.stabs) : i \notin Present
    /\ \E i, j \in Present :
           /\ i < j
           /\ FunctionOf(i) = i
           /\ FunctionOf(j) = i
           /\ last.before.stabs[j].strx = 0
           /\ \/ SymbolDeleted(i)
              \/ \E k \in Present : FunctionOf(k) = 0 /\ k \in RemovedIn(stabsec)

\* C26: after _bfd_link_section_stabs and any number of calls of
\* _bfd_discard_section_stabs the size of the section is STABSIZE times the
\* number of the stabs that are not removed and cumulative_skips[i] is
\* STABSIZE times the number of the removed stabs before the stab i, so that
\* the assertions of _bfd_write_section_stabs hold: the bytes copied are the
\* size of the section and every offset to patch lies in the raw section
C26_SizesAgree ==
    stabsec.secinfo.set =>
        /\ stabsec.size =
               STABSIZE * (Len(stabsec.stabs) - Cardinality(RemovedIn(stabsec)))
        /\ IF stabsec.secinfo.skips
           THEN \A i \in 1..Len(stabsec.stabs) :
                    stabsec.secinfo.cumulative_skips[i] =
                        STABSIZE * Cardinality({ k \in RemovedIn(stabsec) : k < i })
           ELSE RemovedIn(stabsec) = {}
        /\ \A k \in 1..Len(stabsec.secinfo.excls) :
               stabsec.secinfo.excls[k].offset < stabsec.rawsize
        /\ last.op = "write" =>
               /\ last.asserted
               /\ Len(last.out) * STABSIZE = stabsec.size

\* a section written out after the link has left out the stabs of a header
\* seen before and a discard the stabs of a function
C26_Witness ==
    /\ last.op = "write"
    /\ last.discards > 0
    /\ Len(stabsec.secinfo.excls) > 0
    /\ \E i, j \in RemovedIn(stabsec) :
           /\ stabsec.stabs[i].type = "N_FUN"
           /\ stabsec.stabs[j].type = "N_EINCL"
    /\ Len(last.out) > 0

(***************************************************************************)
(* SpecLink: sections with a header file, whose stabs lie between an       *)
(* N_BINCL and an N_EINCL, are linked one after the other and each is      *)
(* written out.                                                            *)
(***************************************************************************)
MaxLinkStabs == 3

MaxLinks == 2

\* two strings that differ in the file number only, and one with the same
\* number and sum of characters as these
TokTypeOne == Tok("N_LSYM", <<"p", "(", "1", ",", "2", ")">>)

TokTypeThree == Tok("N_LSYM", <<"p", "(", "3", ",", "2", ")">>)

TokTypeOther == Tok("N_LSYM", <<"2", "(", ",", "p", ")">>)

TokExcl == Tok("N_EXCL", <<"s">>)

LinkSections ==
    { SectionOf(<<TokBegin>> \o q \o <<TokEnd>>) :
          q \in UpTo({TokTypeOne, TokTypeThree, TokTypeOther, TokExcl, TokBegin, TokEnd}, MaxLinkStabs) }

SectionNext ==
    /\ last.op \in {"none", "link", "write"}
    /\ last.ret
    /\ last.links < MaxLinks
    /\ \E sec \in LinkSections : LinkCall(sec, "link")

SectionOut == last.op = "link" /\ SectionWrite

InitLink == InitSession(FALSE)

NextLink == SectionNext \/ SectionOut

SpecLink == InitLink /\ [][NextLink]_vars

\* the nesting level of the stab j in the header file that begins at i
Level(sec, i, j) ==
    Cardinality({ k \in (i + 1)..(j - 1) : sec.stabs[k].type = "N_BINCL" })
      - Cardinality({ k \in (i + 1)..(j - 1) : sec.stabs[k].type = "N_EINCL" })

\* the N_EINCL that ends the header file that begins at i; the stab after
\* the last when there is none
MatchingEnd(sec, i) ==
    LET ends == { j \in (i + 1)..Len(sec.stabs) :
                      sec.stabs[j].type = "N_EINCL" /\ Level(sec, i, j) = 0 }
    IN  IF ends = {} THEN Len(sec.stabs) + 1
        ELSE CHOOSE j \in ends : \A k \in ends : j <= k

\* the stabs of the body of the header file at i at nesting level 0; excl
\* says whether an N_EXCL is one of them
Body(sec, i, excl) ==
    { j \in (i + 1)..(MatchingEnd(sec, i) - 1) :
          /\ Level(sec, i, j) = 0
          /\ sec.stabs[j].type \notin {"N_BINCL", "N_EINCL"}
          /\ excl \/ sec.stabs[j].type # "N_EXCL" }

\* a string without the file number after each '('
NoFileNumber(str) ==
    LET keep == { k \in 1..Len(str) :
                      ~ /\ ISDIGIT(str[k])
                        /\ \E b \in 1..(k - 1) :
                               /\ str[b] = "("
                               /\ \A d \in (b + 1)..k : ISDIGIT(str[d]) }
        F[k \in 0..Len(str)] ==
            IF k = 0 THEN <<>>
            ELSE IF k \in keep THEN Append(F[k - 1], str[k]) ELSE F[k - 1]
    IN  F[Len(str)]

\* the signature of the header file at i: the characters of the strings of
\* its body
Signature(sec, i, excl) ==
    LET F[j \in i..Len(sec.stabs)] ==
            IF j = i THEN <<>>
            ELSE IF j \in Body(sec, i, excl)
            THEN F[j - 1] \o NoFileNumber(StringAt(sec.stabstr, sec.stabs[j].strx))
            ELSE F[j - 1]
    IN  F[Len(sec.stabs)]

SumOf(chars) ==
    LET F[k \in 0..Len(chars)] == IF k = 0 THEN 0 ELSE F[k - 1] + Ascii[chars[k]]
    IN  F[Len(chars)]

\* the name and the signature of the header file at i
HeaderOf(sec, i, excl) ==
    [name |-> StringAt(sec.stabstr, sec.stabs[i].strx),
     chars |-> Signature(sec, i, excl)]

Begins(sec) == { i \in 1..Len(sec.stabs) : sec.stabs[i].type = "N_BINCL" }

\* the header files seen in the link before the N_BINCL at i of the section
SeenBefore(i, excl) ==
    { HeaderOf(last.before, k, excl) : k \in { b \in Begins(last.before) : b < i } }
      \cup UNION { { HeaderOf(last.earlier[n], k, excl) : k \in Begins(last.earlier[n]) } :
                   n \in 1..Len(last.earlier) }

\* the stab i of the section as it is written out
Written(i) == last.out[i - Cardinality({ k \in RemovedIn(stabsec) : k < i })]

\* the header files of the section are written as the claim C25 says
Deduplicated(excl) ==
    \A i \in Begins(last.before) :
        /\ i \notin RemovedIn(stabsec)
        /\ Written(i).value = SumOf(Signature(last.before, i, excl))
        /\ IF HeaderOf(last.before, i, excl) \in SeenBefore(i, excl)
           THEN /\ Written(i).type = "N_EXCL"
                /\ \A j \in Body(last.before, i, excl) \cup {MatchingEnd(last.before, i)} :
                       j <= Len(last.before.stabs) => j \in RemovedIn(stabsec)
           ELSE /\ Written(i).type = "N_BINCL"
                /\ \A j \in Body(last.before, i, excl) \cup {MatchingEnd(last.before, i)} :
                       j \notin RemovedIn(stabsec)

\* C25 as stated: an N_BINCL whose name and signature (sum, number and
\* characters of the strings of the body stabs at nesting level 0, without
\* the file number after each '(') are those of an N_BINCL seen earlier in
\* the link is written as N_EXCL and all its body stabs at nesting level 0
\* through the matching N_EINCL are removed; the first one stays N_BINCL and
\* keeps its body; both get the sum of the characters as value
C25_HeaderDeduplicated == last.op = "write" => Deduplicated(TRUE)

\* C25, with an N_EXCL of the body left out of the signature and left in
\* the section: the same for the stabs of the body at nesting level 0 other
\* than N_EXCL
C25_HeaderDeduplicatedButExcl == last.op = "write" => Deduplicated(FALSE)

\* the second section written, with a header file seen in the first under
\* another file number, whose body and N_EINCL are removed
C25_Witness ==
    /\ last.op = "write"
    /\ last.links = 2
    /\ \E i \in Begins(last.before) :
           /\ HeaderOf(last.before, i, FALSE) \in
                  { HeaderOf(last.earlier[1], k, FALSE) : k \in Begins(last.earlier[1]) }
           /\ Written(i).type = "N_EXCL"
           /\ Written(i).value > 0
           /\ \E j \in Body(last.before, i, FALSE) :
                  /\ j \in RemovedIn(stabsec)
                  /\ \A k \in 1..Len(last.earlier[1].stabs) :
                         last.earlier[1].stabs[k].type = "N_LSYM" =>
                             StringAt(last.earlier[1].stabstr, last.earlier[1].stabs[k].strx)
                               # StringAt(last.before.stabstr, last.before.stabs[j].strx)

(***************************************************************************)
(* SpecScope: source files, functions with a plain and with a qualified    *)
(* name, local variables and blocks, in a session whose values are         *)
(* relative to the section or not.                                         *)
(***************************************************************************)
MaxScopeRecords == 4

ScopeFunStrings ==
    { <<"f", ":", "F", "1">>, <<"g", ":", "f", "1">>,
      <<"A", ":", ":", "f", ":", "F", "1">> }

ScopeValues == { 3, 6 }

OpenScope == session = "open" /\ Len(hist) < MaxScopeRecords

ScopeSo == OpenScope /\ \E s \in {<<>>, <<"/", "a">>} : Dispatch("N_SO", 0, 2, s)

ScopeFun ==
    OpenScope /\ \E s \in ScopeFunStrings : \E v \in ScopeValues : Dispatch("N_FUN", 0, v, s)

ScopeFunEnd == OpenScope /\ Dispatch("N_FUN", 0, 0, <<>>)

ScopeVar == OpenScope /\ Dispatch("N_LSYM", 0, 7, <<"a", ":", "1">>)

ScopeLbrac == OpenScope /\ Dispatch("N_LBRAC", 0, 4, <<>>)

InitScope == \E sections \in BOOLEAN : InitSession(sections)

NextScope == ScopeSo \/ ScopeFun \/ ScopeFunEnd \/ ScopeVar \/ ScopeLbrac \/ StabEnd

SpecScope == InitScope /\ [][NextScope]_vars

\* the calls that the step delivers to the sink
DeliveredNow == { k \in 1..Len(dbg'.calls) : k > Len(dbg.calls) }

\* the variables held before the step are delivered in it before the call k
FlushedBefore(k) ==
    Cardinality({ n \in DeliveredNow : n < k /\ dbg'.calls[n][1] = "debug_record_variable" })
        >= Len(info.pending)

\* C27: after a dispatch that succeeds the pending variables are none unless
\* the decoder is within a function; a variable is held only within a
\* function, and a step that leaves the function, by a source file, by an
\* N_FUN without a name, by the next function or by the end of the session,
\* delivers the variables held before it ends the function
C27_PendingOnlyWithinFunction ==
    [][/\ ret' /\ ~info'.within_function => info'.pending = <<>>
       /\ Len(info'.pending) > Len(info.pending) => info.within_function
       /\ ret' /\ info.within_function /\ ~info'.within_function =>
              \E k \in DeliveredNow : dbg'.calls[k][1] = "debug_end_function"
       /\ \A k \in DeliveredNow :
              dbg'.calls[k][1] = "debug_end_function" =>
                  FlushedBefore(k) /\ info'.pending = <<>>]_vars

\* a function with a variable held has been left by a source file record,
\* and the variable has reached the sink
C27_Witness ==
    /\ Len(hist) >= 3
    /\ hist[Len(hist)].type = "N_SO"
    /\ hist[Len(hist) - 1].queued
    /\ ret
    /\ ~info.within_function
    /\ info.pending = <<>>
    /\ \E k \in 1..Len(dbg.calls) : dbg.calls[k][1] = "debug_record_variable"

\* the step delivers the definition of a function to the sink
DefinesFunction == \E k \in DeliveredNow : dbg'.calls[k][1] = "debug_record_function"

\* C28: whenever the dispatch of a record delivers a function definition to
\* the sink, the same dispatch has closed the function that was open and has
\* entered the function: after it the decoder is within a function and, with
\* values relative to the section, the function start offset is the value of
\* the record
C28_DispatcherAndParserAgree ==
    [][DefinesFunction =>
           /\ info'.within_function
           /\ info.sections => info'.function_start_offset = hist'[Len(hist')].value
           /\ info.within_function =>
                  \E k, n \in DeliveredNow :
                      /\ k < n
                      /\ dbg'.calls[k][1] = "debug_end_function"
                      /\ dbg'.calls[n][1] = "debug_record_function"]_vars

\* the same for the records in which the first colon of the string is the
\* one before the symbol descriptor
C28_PlainNamesAgree ==
    [][DefinesFunction /\ stab_name_end(hist'[Len(hist')].string, strchr(hist'[Len(hist')].string, 1, ":")) = strchr(hist'[Len(hist')].string, 1, ":") =>
           /\ info'.within_function
           /\ info.sections => info'.function_start_offset = hist'[Len(hist')].value
           /\ info.within_function =>
                  \E k, n \in DeliveredNow :
                      /\ k < n
                      /\ dbg'.calls[k][1] = "debug_end_function"
                      /\ dbg'.calls[n][1] = "debug_record_function"]_vars

\* a function with a qualified name has reached the sink and the decoder
\* is not within a function
C28_Witness ==
    /\ Len(hist) >= 1
    /\ hist[Len(hist)].string = <<"A", ":", ":", "f", ":", "F", "1">>
    /\ ret
    /\ \E k \in 1..Len(dbg.calls) : dbg.calls[k][1] = "debug_record_function"
    /\ ~info.within_function

(***************************************************************************)
(* SpecDemangle: a mangled name is handed to stab_demangle_argtypes.  The  *)
(* names are f__, then nothing, a class or a template, then up to three    *)
(* argument types out of int, pointers, back references and repeats.       *)
(***************************************************************************)
MaxDemangleArgs == 3

DemangleTokens ==
    { <<"i">>, <<"P", "T", "0">>, <<"T", "0">>, <<"T", "1">>, <<"T", "2">>,
      <<"N", "2", "0">>, <<"N", "1", "2">> }

RECURSIVE Flat(_)
Flat(q) == IF q = <<>> THEN <<>> ELSE Head(q) \o Flat(Tail(q))

DemangleClasses == { <<>>, <<"3", "F", "o", "o">> }

\* templates with one value parameter of the type int, void, bool and char,
\* with a type parameter, and with a function type and a value parameter
\* whose type is the argument remembered in it
DemangleTemplates ==
    { <<"t", "1", "A", "1", "i", "5">>, <<"t", "1", "A", "1", "v">>,
      <<"t", "1", "A", "1", "Z", "i">>, <<"t", "1", "A", "1", "b", "1">>,
      <<"t", "1", "A", "1", "b", "2">>, <<"t", "1", "A", "1", "c", "0">>,
      <<"t", "1", "A", "1", "P", "i", "1", "x">>, <<"t", "1", "A", "1", "d", "1", ".", "5">>,
      <<"t", "1", "A", "2", "Z", "F", "i", "_", "i", "T", "0">> }

MangledNames ==
    { <<"f", "_", "_">> \o c \o Flat(q) :
          c \in DemangleClasses, q \in UpTo(DemangleTokens, MaxDemangleArgs) }
      \cup { <<"f", "_", "_">> \o t \o a : t \in DemangleTemplates, a \in {<<>>, <<"i">>} }

MangledName ==
    /\ mangled = NoMangled
    /\ \E physname \in MangledNames : mangled' = [NoMangled EXCEPT !.physname = physname]
    /\ UNCHANGED <<info, stab_types, bincl_files, stab_tags, dbg, diag, ret, session, hist, sinfo, stabsec, last>>

DemangleArgtypes ==
    /\ mangled.physname # <<>>
    /\ ~mangled.done
    /\ \E r \in {stab_demangle_argtypes(Machine, mangled.physname, 0)} :
           /\ mangled' = [mangled EXCEPT !.done = TRUE, !.hasargs = r.hasargs,
                              !.nargs = Len(r.args), !.varargs = r.varargs,
                              !.typestrings = r.typestrings, !.refs = r.refs,
                              !.aborted = r.aborted]
           /\ dbg' = r.m.dbg
           /\ diag' = r.m.diag
    /\ UNCHANGED <<info, stab_types, bincl_files, stab_tags, ret, session, hist, sinfo, stabsec, last>>

InitDemangle == InitSession(FALSE)

NextDemangle == MangledName \/ DemangleArgtypes

SpecDemangle == InitDemangle /\ [][NextDemangle]_vars

\* the types remembered whose text holds the place at
Holding(at) ==
    { k \in 1..Len(mangled.typestrings) :
          /\ mangled.typestrings[k].typestring <= at
          /\ at < mangled.typestrings[k].typestring + mangled.typestrings[k].len }

\* C29: the demangling comes to an end; a back reference T<n> or N<count><n>
\* is taken only when n is less than the number of the types remembered by
\* then, a type is remembered when it has been read to its end, so that the
\* text of a type remembered holds back references to types remembered
\* before it only, and a back reference to a type not remembered yet makes
\* the demangling fail
C29_BackReferencesGoBack ==
    mangled.done =>
        /\ \A n \in 1..Len(mangled.refs) :
               /\ mangled.refs[n].ok <=> mangled.refs[n].i < mangled.refs[n].count
               /\ mangled.refs[n].ok =>
                      \A k \in Holding(mangled.refs[n].at) : mangled.refs[n].i + 1 < k
               /\ ~mangled.refs[n].ok => ~mangled.hasargs /\ n = Len(mangled.refs)
        /\ \A k \in 1..Len(mangled.typestrings) :
               /\ mangled.typestrings[k].len > 0
               /\ mangled.typestrings[k].typestring + mangled.typestrings[k].len
                      <= Len(mangled.physname) + 1

\* a name demangled in which a back reference is read a second time, when
\* the type that holds it is read again for a later back reference
C29_Witness ==
    /\ mangled.done
    /\ mangled.hasargs
    /\ mangled.nargs = 3
    /\ \E n, k \in 1..Len(mangled.refs) :
           /\ n < k
           /\ mangled.refs[n].at = mangled.refs[k].at
           /\ mangled.refs[n].count < mangled.refs[k].count
           /\ Holding(mangled.refs[n].at) # {}

\* C30: no mangled name makes the demangler abort: for every name
\* stab_demangle_argtypes returns the arguments or the failure
C30_DemanglerNeverAborts == mangled.done => ~mangled.aborted

\* the same for the names without a template whose value parameter has
\* the type void or a remembered type
C30_OtherNamesNeverAbort ==
    mangled.done /\ mangled.aborted =>
        \E t \in {<<"t", "1", "A", "1", "v">>, <<"t", "1", "A", "2", "Z", "F", "i", "_", "i", "T", "0">>} :
            startswith(mangled.physname, 4, t)

\* the demangler has called abort() for a value parameter of a remembered type
C30_Witness ==
    /\ mangled.done
    /\ mangled.aborted
    /\ Len(mangled.refs) = 1
    /\ mangled.refs[1].ok

====
